---- MODULE Spec2Model ----
(***************************************************************************)
(* A model of the spherical-Gaussian renderer of src/model/sg_render.py.   *)
(*                                                                         *)
(* Numbers.  A float is modelled as a fixed-point integer counted in       *)
(* millionths (ONE = 1.0), so that TINY_NUMBER = 1e-6 is the integer 1.    *)
(* Every arithmetic operation rounds its exact result to the nearest       *)
(* millionth, as a float operation rounds to the nearest float.  NaN is a  *)
(* value of its own that every operation propagates.  Products and        *)
(* quotients are computed in pieces so that no intermediate value leaves   *)
(* the 32-bit integers of the model checker.                               *)
(***************************************************************************)
EXTENDS Integers, Sequences, FiniteSets, TLC

\* 1.0 in fixed point.
ONE == 1000 * 1000

\* src/model/sg_render.py:6
TINY_NUMBER == 1

\* The float NaN.
NaN == -(2147483647)

IsNaN(x) == x = NaN

Abs(x) == IF x < 0 THEN -x ELSE x

Sgn(x) == IF x < 0 THEN -1 ELSE 1

\* |a| * |b| / ONE rounded to nearest, for magnitudes a, b >= 0.
MulMag(a, b) ==
    LET a1 == a \div 1000
        a0 == a % 1000
        b1 == b \div 1000
        b0 == b % 1000
    IN  a1 * b1 + ((a1 * b0 + a0 * b1) + ((a0 * b0 + 500000) \div 1000)) \div 1000

\* float multiplication a * b
MulFix(a, b) ==
    IF IsNaN(a) \/ IsNaN(b) THEN NaN
    ELSE Sgn(a) * Sgn(b) * MulMag(Abs(a), Abs(b))

\* Long division: the quotient q so far and the remainder r, k more decimal
\* digits to produce; the last step rounds to nearest.
RECURSIVE LongDiv(_, _, _, _)
LongDiv(q, r, b, k) ==
    IF k = 0 THEN (IF 2 * r >= b THEN q + 1 ELSE q)
    ELSE LongDiv(q * 10 + (r * 10) \div b, (r * 10) % b, b, k - 1)

\* |a| * ONE / |b| rounded to nearest, for a >= 0, b > 0.  A divisor above 200
\* is first scaled down with the dividend (a relative error below 1e-7).
RECURSIVE DivMag(_, _)
DivMag(a, b) ==
    IF b > 200 * ONE THEN DivMag(a \div 10, b \div 10)
    ELSE LongDiv(a \div b, a % b, b, 6)

\* float division a / b.  0/0 is NaN; x/0 with x # 0 is infinite, which the
\* model has no value for.  The one division by 0 that the inputs of the model
\* reach is lambda_trick's ratio for lambda2 = 0, where the infinity meets
\* 0 * inf (lambda3, diff) and inf / inf (the blend weights) and every output
\* is NaN: NaN stands for it.
DivFix(a, b) ==
    IF IsNaN(a) \/ IsNaN(b) \/ b = 0 THEN NaN
    ELSE Sgn(a) * Sgn(b) * DivMag(Abs(a), Abs(b))

AddFix(a, b) == IF IsNaN(a) \/ IsNaN(b) THEN NaN ELSE a + b

SubFix(a, b) == IF IsNaN(a) \/ IsNaN(b) THEN NaN ELSE a - b

\* floor(|a| * ONE / |b|) and the remainder, for Newton's iteration.
RECURSIVE LongDivFloor(_, _, _, _)
LongDivFloor(q, r, b, k) ==
    IF k = 0 THEN q
    ELSE LongDivFloor(q * 10 + (r * 10) \div b, (r * 10) % b, b, k - 1)

DivFloor(a, b) == LongDivFloor(a \div b, a % b, b, 6)

\* Newton's iteration for floor(sqrt(x * ONE)), from a guess s above the root.
RECURSIVE NewtonSqrt(_, _)
NewtonSqrt(x, s) ==
    LET n == (s + DivFloor(x, s)) \div 2
    IN  IF n >= s THEN s ELSE NewtonSqrt(x, n)

\* torch.sqrt: NaN for a negative argument.  Above 500 the root is taken as
\* twice the root of a quarter, so that 4 x stays in range.
RECURSIVE SqrtFix(_)
SqrtFix(x) ==
    IF IsNaN(x) \/ x < 0 THEN NaN
    ELSE IF x = 0 THEN 0
    ELSE IF x > 500 * ONE THEN 2 * SqrtFix(x \div 4)
    ELSE \* floor(2 sqrt(x)) is odd exactly when sqrt(x) rounds up
         \* (47 is above the root of every number in range)
         (NewtonSqrt(4 * x, IF 4 * x > ONE THEN 47 * ONE ELSE ONE) + 1) \div 2

\* e^-n for n = 0..14, to the nearest millionth; below that it is 0.
ExpNegInt(n) ==
    IF n > 14 THEN 0
    ELSE <<1000000, 367879, 135335, 49787, 18316, 6738, 2479, 912, 335,
           123, 45, 17, 6, 2, 1>>[n + 1]

\* e^-f for 0 <= f < ONE: the Taylor series in Horner form,
\* 1 - f (1 - f/2 (1 - f/3 ( ... (1 - f/k) ... ))).
RECURSIVE ExpNegFrac(_, _, _)
ExpNegFrac(f, k, acc) ==
    IF k = 0 THEN acc
    ELSE ExpNegFrac(f, k - 1, ONE - MulMag(f, acc) \div k)

\* torch.exp
ExpFix(x) ==
    IF IsNaN(x) THEN NaN
    ELSE IF x <= 0
         THEN MulMag(ExpNegInt((-x) \div ONE), ExpNegFrac((-x) % ONE, 12, ONE))
         ELSE DivMag(ONE, MulMag(ExpNegInt(x \div ONE), ExpNegFrac(x % ONE, 12, ONE)))

\* torch.clamp(x, min=lo)
ClampMin(x, lo) == IF IsNaN(x) THEN NaN ELSE IF x < lo THEN lo ELSE x

\* torch.clamp(x, max=hi)
ClampMax(x, hi) == IF IsNaN(x) THEN NaN ELSE IF x > hi THEN hi ELSE x

\* torch.min(a, b): NaN if either is
MinFix(a, b) == IF IsNaN(a) \/ IsNaN(b) THEN NaN ELSE IF a < b THEN a ELSE b

\* a > b as a float comparison: false when either is NaN
GtFix(a, b) == ~IsNaN(a) /\ ~IsNaN(b) /\ a > b

(***************************************************************************)
(* Vectors are triples <<x, y, z>> of fixed-point numbers.  One colour     *)
(* channel is modelled: the three channels of an amplitude go through the  *)
(* same elementwise operations.                                            *)
(***************************************************************************)
\* torch.sum(a * b, dim=-1)
Dot(a, b) ==
    AddFix(AddFix(MulFix(a[1], b[1]), MulFix(a[2], b[2])), MulFix(a[3], b[3]))

\* torch.cross(a, b)
Cross(a, b) ==
    << SubFix(MulFix(a[2], b[3]), MulFix(a[3], b[2])),
       SubFix(MulFix(a[3], b[1]), MulFix(a[1], b[3])),
       SubFix(MulFix(a[1], b[2]), MulFix(a[2], b[1])) >>

\* torch.norm(x, dim=-1)
VecNorm(x) == SqrtFix(Dot(x, x))

\* c * x for a scalar c
VecScale(c, x) == << MulFix(c, x[1]), MulFix(c, x[2]), MulFix(c, x[3]) >>

VecAdd(a, b) == << AddFix(a[1], b[1]), AddFix(a[2], b[2]), AddFix(a[3], b[3]) >>

VecSub(a, b) == << SubFix(a[1], b[1]), SubFix(a[2], b[2]), SubFix(a[3], b[3]) >>

\* x / c for a scalar c
VecDiv(x, c) == << DivFix(x[1], c), DivFix(x[2], c), DivFix(x[3], c) >>

norm_axis(x) == VecDiv(x, AddFix(VecNorm(x), TINY_NUMBER))

\* A sign slip in the cross term: sqrt(ratio^2 + 1 - 2 ratio dot)
lambda_trick_sqrt_minus(ratio, dot) ==
    SqrtFix(SubFix(AddFix(MulFix(ratio, ratio), ONE),
                   MulFix(MulFix(2 * ONE, ratio), dot)))

\* tmp of lambda_trick before it is clamped: sqrt(ratio^2 + 1 + 2 ratio dot)
lambda_trick_sqrt(ratio, dot) ==
    SqrtFix(AddFix(AddFix(MulFix(ratio, ratio), ONE),
                   MulFix(MulFix(2 * ONE, ratio), dot)))

\* Returns (final_lobes, final_lambdas, final_mus).
lambda_trick(lobe1, lambda1, mu1, lobe2, lambda2, mu2) ==
    LET ratio == DivFix(lambda1, lambda2)
        l1    == norm_axis(lobe1)
        l2    == norm_axis(lobe2)
        dot   == Dot(l1, l2)
        tmp   == MinFix(lambda_trick_sqrt(ratio, dot), AddFix(ratio, ONE))
        lambda3 == MulFix(lambda2, tmp)
        lambda1_over_lambda3 == DivFix(ratio, tmp)
        lambda2_over_lambda3 == DivFix(ONE, tmp)
        diff  == MulFix(lambda2, SubFix(SubFix(tmp, ratio), ONE))
    IN  [ lobe   |-> VecAdd(VecScale(lambda1_over_lambda3, l1),
                            VecScale(lambda2_over_lambda3, l2)),
          lambda |-> lambda3,
          mu     |-> MulFix(MulFix(mu1, mu2), ExpFix(diff)) ]

\* The auxiliary parameter t(lambda) of hemisphere_int.
hemisphere_t(lambda_val) ==
    LET inv_lambda_val == DivFix(ONE, lambda_val)
    IN  DivFix(MulFix(SqrtFix(lambda_val),
                      AddFix(1698800, MulFix(10843800, inv_lambda_val))),
               AddFix(AddFix(ONE, MulFix(6220100, inv_lambda_val)),
                      MulFix(MulFix(10241500, inv_lambda_val), inv_lambda_val)))

\* 2 pi / lambda * (exp(-lambda) - exp(-2 lambda))
hemisphere_A_b(lambda_val) ==
    MulFix(DivFix(6283185, lambda_val),
           SubFix(ExpFix(-lambda_val), ExpFix(-2 * lambda_val)))

\* 2 pi / lambda * (1 - exp(-lambda))
hemisphere_A_u(lambda_val) ==
    MulFix(DivFix(6283185, lambda_val), SubFix(ONE, ExpFix(-lambda_val)))

\* The mask taken the wrong way round: s2 for cos_beta >= 0, s1 below.
hemisphere_s_mask_flipped(t, cos_beta) ==
    LET inv_a == ExpFix(-t)
        mask  == IF ~IsNaN(cos_beta) /\ cos_beta >= 0 THEN 0 ELSE ONE
        inv_b == ExpFix(-MulFix(t, ClampMin(cos_beta, 0)))
        s1    == DivFix(SubFix(ONE, MulFix(inv_a, inv_b)),
                        SubFix(AddFix(SubFix(ONE, inv_a), inv_b),
                               MulFix(inv_a, inv_b)))
        b     == ExpFix(MulFix(t, ClampMax(cos_beta, 0)))
        s2    == DivFix(SubFix(b, inv_a),
                        MulFix(SubFix(ONE, inv_a), AddFix(b, ONE)))
    IN  AddFix(MulFix(mask, s1), MulFix(SubFix(ONE, mask), s2))

\* The mixing factor s of hemisphere_int.
hemisphere_s(t, cos_beta) ==
    LET inv_a == ExpFix(-t)
        mask  == IF ~IsNaN(cos_beta) /\ cos_beta >= 0 THEN ONE ELSE 0
        inv_b == ExpFix(-MulFix(t, ClampMin(cos_beta, 0)))
        s1    == DivFix(SubFix(ONE, MulFix(inv_a, inv_b)),
                        SubFix(AddFix(SubFix(ONE, inv_a), inv_b),
                               MulFix(inv_a, inv_b)))
        b     == ExpFix(MulFix(t, ClampMax(cos_beta, 0)))
        s2    == DivFix(SubFix(b, inv_a),
                        MulFix(SubFix(ONE, inv_a), AddFix(b, ONE)))
    IN  AddFix(MulFix(mask, s1), MulFix(SubFix(ONE, mask), s2))

\* The two terms exchanged: A_b s + A_u (1 - s)
hemisphere_blend_swapped(A_b, A_u, s) ==
    AddFix(MulFix(A_b, s), MulFix(A_u, SubFix(ONE, s)))

\* A_b (1 - s) + A_u s
hemisphere_blend(A_b, A_u, s) ==
    AddFix(MulFix(A_b, SubFix(ONE, s)), MulFix(A_u, s))

hemisphere_int(lambda_in, cos_beta) ==
    LET lambda_val == AddFix(lambda_in, TINY_NUMBER)
        s == hemisphere_s(hemisphere_t(lambda_val), cos_beta)
    IN  hemisphere_blend(hemisphere_A_b(lambda_val), hemisphere_A_u(lambda_val), s)

(***************************************************************************)
(* Angles are fixed-point radians.                                         *)
(***************************************************************************)
\* np.pi
PI == 3141593

\* The Taylor series of sin in Horner form for |x| <= pi/2, x2 = x^2:
\* x (1 - x2/(2*3) (1 - x2/(4*5) (1 - ... ))), k the number of factors left.
RECURSIVE SinSeries(_, _, _)
SinSeries(x2, k, acc) ==
    IF k = 0 THEN acc
    ELSE SinSeries(x2, k - 1, ONE - MulMag(x2, acc) \div ((2 * k) * (2 * k + 1)))

RECURSIVE CosSeries(_, _, _)
CosSeries(x2, k, acc) ==
    IF k = 0 THEN acc
    ELSE CosSeries(x2, k - 1, ONE - MulMag(x2, acc) \div ((2 * k - 1) * (2 * k)))

\* torch.sin, for -2 pi <= x <= 2 pi
RECURSIVE SinFix(_)
SinFix(x) ==
    IF IsNaN(x) THEN NaN
    ELSE IF x < 0 THEN -SinFix(-x)
    ELSE IF x > PI THEN -SinFix(x - PI)
    ELSE IF 2 * x > PI THEN SinFix(PI - x)
    ELSE MulFix(x, SinSeries(MulMag(x, x), 7, ONE))

\* torch.cos, for -2 pi <= x <= 2 pi
RECURSIVE CosFix(_)
CosFix(x) ==
    IF IsNaN(x) THEN NaN
    ELSE IF x < 0 THEN CosFix(-x)
    ELSE IF x > PI THEN -CosFix(x - PI)
    ELSE IF 2 * x > PI THEN -CosFix(PI - x)
    ELSE CosSeries(MulMag(x, x), 7, ONE)

\* The Taylor series of atan for 0 <= x <= 0.2: x (1 - x2/3 + x2^2/5 - ...).
AtanSeries(x) ==
    LET x2 == MulMag(x, x)
        x4 == MulMag(x2, x2)
        x6 == MulMag(x4, x2)
        x8 == MulMag(x4, x4)
    IN  MulMag(x, ONE - x2 \div 3 + x4 \div 5 - x6 \div 7 + x8 \div 9)

\* One halving of the angle: tan(a/2) = tan(a) / (1 + sqrt(1 + tan(a)^2)).
AtanHalve(x) == DivMag(x, ONE + SqrtFix(ONE + MulMag(x, x)))

\* atan of a ratio y/x with 0 <= y <= x, x > 0: two halvings, then the series.
AtanRatio(y, x) == 4 * AtanSeries(AtanHalve(AtanHalve(DivMag(y, x))))

\* atan2 for y >= 0, x >= 0, not both 0
AtanQuadrant(y, x) ==
    IF y <= x THEN AtanRatio(y, x) ELSE PI \div 2 - AtanRatio(x, y)

\* torch.atan2 where it does not depend on the sign of a zero: not at
\* x = y = 0 and not at y = 0, x < 0.
Atan2Fix(y, x) ==
    IF IsNaN(x) \/ IsNaN(y) THEN NaN
    ELSE IF x >= 0 /\ y >= 0 THEN AtanQuadrant(y, x)
    ELSE IF x >= 0 THEN -AtanQuadrant(-y, x)
    ELSE IF y >= 0 THEN PI - AtanQuadrant(y, -x)
    ELSE AtanQuadrant(-y, -x) - PI

\* torch.arccos: NaN outside [-1, 1]
ArccosFix(z) ==
    IF IsNaN(z) \/ z > ONE \/ z < -ONE THEN NaN
    ELSE Atan2Fix(SqrtFix(ONE - MulMag(z, z)), z)

(***************************************************************************)
(* The environment map: compute_envmap, render_envmap_sg, render_envmap.   *)
(* A light set lgtSGs is a sequence of records [lobe, lambda, mu]; a map   *)
(* is a function from rows 0..H-1 to functions from columns 0..W-1.        *)
(***************************************************************************)
\* torch.linspace(start, end, steps)[i] for i in 0..steps-1, steps >= 2
linspace(start, end, steps, i) ==
    IF i = steps - 1 THEN end
    ELSE start + (i * (end - start)) \div (steps - 1)

\* One lobe's term of render_envmap_sg: |mu| exp(|lambda| (v . lobe/|lobe| - 1)).
envmap_sg_term(sg, viewdir) ==
    LET lgtSGLobe == VecDiv(sg.lobe, VecNorm(sg.lobe))
    IN  MulFix(Abs(sg.mu),
               ExpFix(MulFix(Abs(sg.lambda), SubFix(Dot(viewdir, lgtSGLobe), ONE))))

RECURSIVE render_envmap_sg(_, _)
render_envmap_sg(lgtSGs, viewdir) ==
    IF lgtSGs = <<>> THEN 0
    ELSE AddFix(envmap_sg_term(Head(lgtSGs), viewdir),
                render_envmap_sg(Tail(lgtSGs), viewdir))

\* The polar angle of row i and the azimuth of column j of the grid.
envmap_phi(H, upper_hemi, i) ==
    linspace(0, IF upper_hemi THEN PI \div 2 ELSE PI, H, i)

envmap_theta(W, j) == linspace(PI, -PI, W, j)

\* The direction of grid cell (i, j).
envmap_viewdir(H, W, upper_hemi, i, j) ==
    LET phi   == envmap_phi(H, upper_hemi, i)
        theta == envmap_theta(W, j)
    IN  << MulFix(CosFix(theta), SinFix(phi)),
           MulFix(SinFix(theta), SinFix(phi)),
           CosFix(phi) >>

compute_envmap(lgtSGs, H, W, upper_hemi) ==
    [ i \in 0..(H - 1) |->
        [ j \in 0..(W - 1) |->
            render_envmap_sg(lgtSGs, envmap_viewdir(H, W, upper_hemi, i, j)) ] ]

\* torch.atan2(y, x) as a set of outcomes.  At x = y = 0 the result is 0 or
\* +-pi by the signs of the two zeros, and at y = 0, x < 0 it is +pi or -pi by
\* the sign of y; a float carries that sign (and a rounding residue such as
\* sin(float(pi)) # 0 decides it), a fixed-point zero does not.
atan2_outcomes(y, x) ==
    IF x = 0 /\ y = 0 THEN {0, PI, -PI}
    ELSE IF y = 0 /\ x < 0 THEN {PI, -PI}
    ELSE {Atan2Fix(y, x)}

\* query_y of render_envmap
envmap_query_y(viewdir) ==
    SubFix(MulFix(DivFix(SubFix(ArccosFix(viewdir[3]), TINY_NUMBER), PI), 2 * ONE), ONE)

\* The sign of the azimuth dropped: theta / pi
envmap_query_x_unsigned(theta) == DivFix(theta, PI)

\* query_x of render_envmap for the azimuth theta
envmap_query_x(theta) == DivFix(-theta, PI)

\* F.grid_sample with align_corners=True: the pixel coordinate of a grid
\* coordinate in [-1, 1] along an axis of the given size.
grid_unnormalize(coord, size) == MulFix(DivFix(AddFix(coord, ONE), 2 * ONE), (size - 1) * ONE)

\* torch.floor of a fixed-point number, as an integer
FloorInt(x) == IF x >= 0 THEN x \div ONE ELSE -((-x + ONE - 1) \div ONE)

\* A pixel of the map, 0 outside it (padding_mode='zeros').
envmap_pixel(envmap, H, W, row, col) ==
    IF row \in 0..(H - 1) /\ col \in 0..(W - 1) THEN envmap[row][col] ELSE 0

\* F.grid_sample(envmap, grid, align_corners=True) at pixel coordinates
\* (ix, iy): bilinear interpolation of the four pixels around them.
grid_sample(envmap, H, W, ix, iy) ==
    LET x0 == FloorInt(ix)
        y0 == FloorInt(iy)
        wx1 == ix - x0 * ONE
        wy1 == iy - y0 * ONE
        wx0 == ONE - wx1
        wy0 == ONE - wy1
    IN  AddFix(AddFix(MulFix(envmap_pixel(envmap, H, W, y0, x0), MulFix(wx0, wy0)),
                      MulFix(envmap_pixel(envmap, H, W, y0, x0 + 1), MulFix(wx1, wy0))),
               AddFix(MulFix(envmap_pixel(envmap, H, W, y0 + 1, x0), MulFix(wx0, wy1)),
                      MulFix(envmap_pixel(envmap, H, W, y0 + 1, x0 + 1), MulFix(wx1, wy1))))

(***************************************************************************)
(* The visibility samplers: get_diffuse_visibility and                     *)
(* get_specular_visibility.  Points are numbered 1..n_points; a (point,    *)
(* direction) pair is <<p, c>>, c the column of the direction: lobe-major  *)
(* (l - 1) * nsamp + s in the diffuse sampler, where every point shares    *)
(* the directions of a lobe, and s in the specular sampler, where every    *)
(* point has directions of its own.                                        *)
(***************************************************************************)
RECURSIVE SumSeq(_)
SumSeq(xs) == IF xs = <<>> THEN 0 ELSE AddFix(Head(xs), SumSeq(Tail(xs)))

RECURSIVE MinSeq(_)
MinSeq(xs) == IF Len(xs) = 1 THEN xs[1] ELSE MinFix(xs[1], MinSeq(Tail(xs)))

\* sample_dir = U cos(r_theta) sin(r_phi) + V sin(r_theta) sin(r_phi)
\*              + axis cos(r_phi), with U = norm_axis(z x axis) and
\*              V = norm_axis(axis x U)
sample_direction(axis, r_theta, r_phi) ==
    LET U == norm_axis(Cross(<<0, 0, ONE>>, axis))
        V == norm_axis(Cross(axis, U))
    IN  VecAdd(VecAdd(VecScale(MulFix(CosFix(r_theta), SinFix(r_phi)), U),
                      VecScale(MulFix(SinFix(r_theta), SinFix(r_phi)), V)),
               VecScale(CosFix(r_phi), axis))

\* The range taken from the threshold alone, whatever the sharpnesses.
sg_range_threshold_only(sharpness, thr) == thr

\* torch.clamp(sharpness.min(), max=thr): one range for the whole tensor
sg_range_of(sharpness, thr) == ClampMax(MinSeq(sharpness), thr)

\* (-0.95 * sg_range) / sharpness + 1, the argument of the arccos
r_phi_cosine_of(sg_range, sharpness) ==
    AddFix(DivFix(MulFix(-950000, sg_range), sharpness), ONE)

\* arccos(-0.95 sg_range / sharpness + 1)
r_phi_range_of(sg_range, sharpness) == ArccosFix(r_phi_cosine_of(sg_range, sharpness))

\* torch.clamp(sharpness, min=1e-4)
diffuse_sharpness(lambda) == ClampMin(lambda, 100)

\* torch.rand: the draw tables tried.  A table gives, for every row (a lobe or
\* a point) and sample, the two uniform numbers in [0, 1) behind r_theta and
\* r_phi.
rand_theta(draw, row, samp) ==
    <<0, 250000, 500000, 750000>>[((draw \div 3 + 2 * row + samp) % 4) + 1]

rand_phi(draw, row, samp) ==
    <<0, 500000, 999999>>[((draw + row + samp) % 3) + 1]

\* The direction of sample samp of a row whose axis and cone are given.
sampled_dir(draw, row, samp, axis, r_phi_range) ==
    sample_direction(axis, MulFix(rand_theta(draw, row, samp), 2 * PI),
                     MulFix(rand_phi(draw, row, samp), r_phi_range))

\* get_diffuse_visibility: the sample directions, [lobe -> [sample -> dir]].
diffuse_sample_dirs(lgtSGLobes, lgtSGLambdas, nsamp, thr, draw) ==
    LET n_lobe    == Len(lgtSGLobes)
        sharpness == [ l \in 1..n_lobe |-> diffuse_sharpness(lgtSGLambdas[l]) ]
        sg_range  == sg_range_of(sharpness, thr)
    IN  [ l \in 1..n_lobe |->
            [ samp \in 1..nsamp |->
                sampled_dir(draw, l, samp, norm_axis(lgtSGLobes[l]),
                            r_phi_range_of(sg_range, sharpness[l])) ] ]

\* ref_dir = -viewdirs + 2 clamp(n . v, min=0) normals
reflect_dir(normal, viewdir) ==
    VecAdd(VecScale(-ONE, viewdir),
           VecScale(MulFix(2 * ONE, ClampMin(Dot(normal, viewdir), 0)), normal))

\* torch.clip(sharpness, min=0.1, max=50)
specular_sharpness(lambda) == ClampMax(ClampMin(lambda, 100000), 50 * ONE)

\* get_specular_visibility: the sample directions, [point -> [sample -> dir]].
specular_sample_dirs(normals, viewdirs, lgtSGLambdas, nsamp, draw) ==
    LET n_points  == Len(normals)
        sharpness == [ p \in 1..n_points |-> specular_sharpness(lgtSGLambdas[p]) ]
        sg_range  == sg_range_of(sharpness, ONE)
    IN  [ p \in 1..n_points |->
            [ samp \in 1..nsamp |->
                sampled_dir(draw, p, samp, reflect_dir(normals[p], viewdirs[p]),
                            r_phi_range_of(sg_range, sharpness[p])) ] ]

\* The comparison against 0 that the comment "vis = 0 if cos(n, w_i) < 0"
\* suggests: the pair passes when the cosine is not negative.
cos_term_nonneg(normal, dir) == ~IsNaN(Dot(normal, dir)) /\ Dot(normal, dir) >= 0

\* cos_term = torch.sum(normals * input_dir, dim=-1) > TINY_NUMBER
cos_term(normal, dir) == GtFix(Dot(normal, dir), TINY_NUMBER)

\* The pairs of a tensor of n_rows x n_cols pairs in row-major order, as
\* boolean-mask indexing input_p[cos_term] lists them.
RECURSIVE PairsFrom(_, _, _, _)
PairsFrom(p, c, n_rows, n_cols) ==
    IF p > n_rows THEN <<>>
    ELSE IF c > n_cols THEN PairsFrom(p + 1, 1, n_rows, n_cols)
    ELSE <<<<p, c>>>> \o PairsFrom(p, c + 1, n_rows, n_cols)

\* torch.split(torch.arange(n), batch_size): the indices 1..n of chunk i
\* (i = 0, 1, ...), in order.  There is always at least one chunk: for n = 0
\* it is the empty one.
split_count(n, batch_size) ==
    IF n = 0 THEN 1 ELSE (n + batch_size - 1) \div batch_size

\* A chunking that advances by batch_size but takes one index fewer.
split_chunk_short(n, batch_size, i) ==
    LET lo == i * batch_size + 1
        hi == IF lo + batch_size - 2 < n THEN lo + batch_size - 2 ELSE n
    IN  [ k \in 1..(IF hi >= lo THEN hi - lo + 1 ELSE 0) |-> lo + k - 1 ]

split_chunk(n, batch_size, i) ==
    LET lo == i * batch_size + 1
        hi == IF (i + 1) * batch_size < n THEN (i + 1) * batch_size ELSE n
    IN  [ k \in 1..(IF hi >= lo THEN hi - lo + 1 ELSE 0) |-> lo + k - 1 ]

\* The visibility predictors tried: each a pure function from a point and a
\* direction to the two class scores <<occluded, visible>>.
VisModels == { "visible", "occluded", "tie", "split", "nan" }

VisModel(model, p, dir) ==
    CASE model = "visible"  -> << -2 * ONE, 3 * ONE >>
      [] model = "occluded" -> << 3 * ONE, -2 * ONE >>
      [] model = "tie"      -> << 0, 0 >>
      [] model = "split"    -> IF dir[3] > p * 100000
                               THEN << 0, ONE >> ELSE << 1500000, 500000 >>
      [] model = "nan"      -> IF dir[3] > 500000 THEN << NaN, ONE >> ELSE << 0, ONE >>

\* torch.softmax(scores, dim=-1)[..., k] for a pair of scores, k in 1..2
softmax(scores, k) ==
    IF IsNaN(scores[1]) \/ IsNaN(scores[2]) THEN NaN
    ELSE LET m  == IF scores[1] > scores[2] THEN scores[1] ELSE scores[2]
             e1 == ExpFix(scores[1] - m)
             e2 == ExpFix(scores[2] - m)
         IN  DivFix(IF k = 1 THEN e1 ELSE e2, e1 + e2)

\* torch.argmax(scores, dim=-1).float(): the first index of the maximum, a NaN
\* counting as the maximum
argmax(scores) ==
    IF IsNaN(scores[1]) THEN 0
    ELSE IF IsNaN(scores[2]) THEN ONE
    ELSE IF scores[2] > scores[1] THEN ONE ELSE 0

\* torch.argmin(scores, dim=-1).float(): the first index of the minimum, a NaN
\* counting as the minimum
argmin(scores) ==
    IF IsNaN(scores[1]) THEN 0
    ELSE IF IsNaN(scores[2]) THEN ONE
    ELSE IF scores[2] < scores[1] THEN ONE ELSE 0

\* The probability of the visible class taken for the visibility in every mode.
reduce_scores_softmax(scores, inv, argmax_vis, multi_view) == softmax(scores, 2)

\* The per-sample visibility of a queried pair from its scores.
reduce_scores(scores, inv, argmax_vis, multi_view) ==
    IF multi_view THEN argmax(scores)
    ELSE IF inv
         THEN (IF argmax_vis THEN argmin(scores) ELSE softmax(scores, 1))
         ELSE (IF argmax_vis THEN argmax(scores) ELSE softmax(scores, 2))

\* The mean without the normalisation: sum(vis * weight)
weighted_sum_only(vis, weight) ==
    SumSeq([ k \in 1..Len(vis) |-> MulFix(vis[k], weight[k]) ])

\* sum(vis * weight) / (sum(weight) + TINY_NUMBER) over the samples of a row
weighted_mean(vis, weight) ==
    DivFix(SumSeq([ k \in 1..Len(vis) |-> MulFix(vis[k], weight[k]) ]),
           AddFix(SumSeq(weight), TINY_NUMBER))

\* weight_vis = exp(sharpness (sample_dir . axis - 1))
weight_vis(sharpness, dir, axis) ==
    ExpFix(MulFix(sharpness, SubFix(Dot(dir, axis), ONE)))

\* render_with_sg, specular_rgb_fn: the warped BRDF lobe that
\* get_specular_visibility is given,
\* (2 max(n . v, 0) n - v) / (|2 max(n . v, 0) n - v| + TINY_NUMBER)
warp_brdf_lobe(normal, viewdir) ==
    norm_axis(VecSub(VecScale(MulFix(2 * ONE, ClampMin(Dot(normal, viewdir), 0)), normal),
                     viewdir))

\* and its sharpness, (2 / roughness^4) / (4 max(n . v, 0) + TINY_NUMBER)
warp_brdf_lambda(normal, viewdir, roughness) ==
    DivFix(DivFix(2 * ONE, MulFix(MulFix(MulFix(roughness, roughness), roughness), roughness)),
           AddFix(MulFix(4 * ONE, ClampMin(Dot(normal, viewdir), 0)), TINY_NUMBER))

\* The sample directions of a sampler call a, [row -> [sample -> dir]].
sample_dirs_of(a, draw) ==
    IF a.fn = "diffuse"
    THEN diffuse_sample_dirs(a.lgtSGLobes, a.lgtSGLambdas, a.nsamp, a.thr, draw)
    ELSE specular_sample_dirs(a.normals, a.viewdirs, a.lgtSGLambdas, a.nsamp, draw)

\* The number of columns of the pair tensor, and the direction of a pair.
n_cols_of(a) == IF a.fn = "diffuse" THEN Len(a.lgtSGLobes) * a.nsamp ELSE a.nsamp

pair_dir(a, dirs, pair) ==
    IF a.fn = "diffuse"
    THEN dirs[((pair[2] - 1) \div a.nsamp) + 1][((pair[2] - 1) % a.nsamp) + 1]
    ELSE dirs[pair[1]][pair[2]]

\* input_p[cos_term], input_dir[cos_term]: the pairs that pass the normal test.
masked_pairs(a, dirs) ==
    LET Passes(pair) == cos_term(a.normals[pair[1]], pair_dir(a, dirs, pair))
    IN  SelectSeq(PairsFrom(1, 1, Len(a.normals), n_cols_of(a)), Passes)

\* vis = zeros; vis[cos_term] = pred_vis: [point -> [column -> visibility]],
\* red the reduced per-pair visibilities in the order of the masked pairs.
scatter_vis(a, mask, red) ==
    [ p \in 1..Len(a.normals) |->
        [ c \in 1..n_cols_of(a) |->
            IF \E k \in 1..Len(mask) : mask[k] = <<p, c>>
            THEN red[CHOOSE k \in 1..Len(mask) : mask[k] = <<p, c>>]
            ELSE 0 ] ]

\* weight_vis: [row -> [sample -> weight]], the rows the lobes (diffuse) or the
\* points (specular).
weights_of(a, dirs) ==
    [ row \in 1..Len(a.lgtSGLobes) |->
        [ samp \in 1..a.nsamp |->
            IF a.fn = "diffuse"
            THEN weight_vis(a.lgtSGLambdas[row], dirs[row][samp], norm_axis(a.lgtSGLobes[row]))
            ELSE weight_vis(specular_sharpness(a.lgtSGLambdas[row]), dirs[row][samp],
                            a.lgtSGLobes[row]) ] ]

\* mean_vis: [lobe -> [point -> value]] in the diffuse sampler, and the one row
\* <<[point -> value]>> in the specular sampler.
aggregate_vis(a, weights, samp_vis) ==
    IF a.fn = "diffuse"
    THEN [ l \in 1..Len(a.lgtSGLobes) |->
            [ p \in 1..Len(a.normals) |->
                weighted_mean([ k \in 1..a.nsamp |-> samp_vis[p][(l - 1) * a.nsamp + k] ],
                              weights[l]) ] ]
    ELSE << [ p \in 1..Len(a.normals) |-> weighted_mean(samp_vis[p], weights[p]) ] >>

\* torch.isnan(vis).sum() > 0 for the aggregated visibility
any_nan(mean) ==
    \E g \in 1..Len(mean) : \E p \in 1..Len(mean[g]) : IsNaN(mean[g][p])

(***************************************************************************)
(* render_with_sg for one point and one view.  lgtSGs is a sequence of     *)
(* rows [lobe, lambda, mu] as given, before normalisation and abs.  An     *)
(* optional argument is <<>> when absent (None) and <<value>> when given.  *)
(***************************************************************************)
\* src/model/sg_render.py:382
lambda_cos == 31500

\* src/model/sg_render.py:381
mu_cos == 32708000

\* src/model/sg_render.py:383
alpha_cos == 31700300

\* torch.abs
AbsFix(x) == IF IsNaN(x) THEN NaN ELSE Abs(x)

\* lgtSGLobes = lgtSGs[..., :3] / (norm + TINY_NUMBER)
lgtSGLobe(sg) == VecDiv(sg.lobe, AddFix(VecNorm(sg.lobe), TINY_NUMBER))

\* lgtSGLambdas = abs(lgtSGs[..., 3:4])
lgtSGLambda(sg) == AbsFix(sg.lambda)

\* origin_lgtSGMus = abs(lgtSGs[..., -3:])
origin_lgtSGMu(sg) == AbsFix(sg.mu)

\* The product of an SG with the clamped cosine, integrated over the
\* hemisphere: mu_prime * hemisphere_int(lambda_prime, dot1)
\*             - final_mus * alpha_cos * hemisphere_int(final_lambdas, dot2)
cosine_integral(normal, final_lobe, final_lambda, final_mu) ==
    LET prime == lambda_trick(normal, lambda_cos, mu_cos, final_lobe, final_lambda, final_mu)
        dot1  == Dot(prime.lobe, normal)
        dot2  == Dot(final_lobe, normal)
    IN  SubFix(MulFix(prime.mu, hemisphere_int(prime.lambda, dot1)),
               MulFix(MulFix(final_mu, alpha_cos), hemisphere_int(final_lambda, dot2)))

\* diffuse_rgb before the precomputed integral is looked at: the sum over the
\* light lobes, clamped at 0.  light_vis is the visibility per lobe that
\* shades the lights when comp_vis holds.
sg_diffuse(normal, lgtSGs, diffuse_albedo, comp_vis, lin_diff, light_vis) ==
    LET diffuse == DivFix(diffuse_albedo, PI)
        lgtSGMu(l) == IF comp_vis THEN MulFix(origin_lgtSGMu(lgtSGs[l]), light_vis[l])
                      ELSE origin_lgtSGMu(lgtSGs[l])
        final_mu(l) == IF lin_diff THEN lgtSGMu(l) ELSE MulFix(lgtSGMu(l), diffuse)
    IN  ClampMin(SumSeq([ l \in 1..Len(lgtSGs) |->
                            cosine_integral(normal, lgtSGLobe(lgtSGs[l]),
                                            lgtSGLambda(lgtSGs[l]), final_mu(l)) ]), 0)

\* if indir_integral is not None: the diffuse term is replaced.
diffuse_override(diffuse_rgb, indir_integral, diffuse_albedo, lin_diff) ==
    IF indir_integral = <<>> THEN diffuse_rgb
    ELSE IF lin_diff THEN indir_integral[1]
    ELSE MulFix(indir_integral[1], DivFix(diffuse_albedo, PI))

\* torch.pow(2.0, x) for x <= 0
Pow2Fix(x) == ExpFix(MulFix(x, 693147))

\* The Fresnel term F of specular_rgb_fn.
fresnel(specular_reflectance, metallic, diffuse_albedo, v_dot_h) ==
    LET spec_col == IF metallic = <<>> THEN specular_reflectance
                    ELSE AddFix(MulFix(SubFix(ONE, metallic[1]), specular_reflectance),
                                MulFix(diffuse_albedo, metallic[1]))
    IN  AddFix(spec_col,
               MulFix(SubFix(ONE, spec_col),
                      Pow2Fix(MulFix(-AddFix(MulFix(5554730, v_dot_h), 6831600), v_dot_h))))

\* G1 = dot / (dot (1 - k) + k + TINY_NUMBER)
geometry_term(dot, k) ==
    DivFix(dot, AddFix(AddFix(MulFix(dot, SubFix(ONE, k)), k), TINY_NUMBER))

\* G with the two dot products taken as they are, without the clamp at 0.
brdf_geometry_unclamped(normal, viewdir, lobe, roughness) ==
    LET k == DivFix(MulFix(AddFix(roughness, ONE), AddFix(roughness, ONE)), 8 * ONE)
    IN  [ dot1 |-> Dot(lobe, normal),
          dot2 |-> Dot(viewdir, normal),
          G    |-> MulFix(geometry_term(Dot(lobe, normal), k),
                          geometry_term(Dot(viewdir, normal), k)) ]

\* dot1, dot2 clamped at 0 and G = G1 * G2 of specular_rgb_fn.
brdf_geometry(normal, viewdir, lobe, roughness) ==
    LET dot1 == ClampMin(Dot(lobe, normal), 0)
        dot2 == ClampMin(Dot(viewdir, normal), 0)
        k    == DivFix(MulFix(AddFix(roughness, ONE), AddFix(roughness, ONE)), 8 * ONE)
    IN  [ dot1 |-> dot1, dot2 |-> dot2,
          G |-> MulFix(geometry_term(dot1, k), geometry_term(dot2, k)) ]

\* The warped BRDF SG [lobe, lambda, mu] of specular_rgb_fn(roughness).
warp_brdf(normal, viewdir, roughness, specular_reflectance, metallic, diffuse_albedo) ==
    LET inv_roughness_pow4 ==
            DivFix(2 * ONE, MulFix(MulFix(MulFix(roughness, roughness), roughness), roughness))
        mu_val   == DivFix(inv_roughness_pow4, PI)
        lobe     == warp_brdf_lobe(normal, viewdir)
        new_half == norm_axis(VecAdd(lobe, viewdir))
        v_dot_h  == ClampMin(Dot(viewdir, new_half), 0)
        F        == fresnel(specular_reflectance, metallic, diffuse_albedo, v_dot_h)
        geo      == brdf_geometry(normal, viewdir, lobe, roughness)
        Moi      == DivFix(MulFix(F, geo.G),
                           AddFix(MulFix(MulFix(4 * ONE, geo.dot1), geo.dot2), TINY_NUMBER))
    IN  [ lobe   |-> lobe,
          lambda |-> warp_brdf_lambda(normal, viewdir, roughness),
          mu     |-> MulFix(mu_val, Moi) ]

\* specular_rgb of specular_rgb_fn before the clamp at 0: the sum over the
\* light lobes.  brdf_vis is the specular visibility of the point.
sg_specular_sum(normal, lgtSGs, warp, brdf_vis) ==
    SumSeq([ l \in 1..Len(lgtSGs) |->
               LET final == lambda_trick(lgtSGLobe(lgtSGs[l]), lgtSGLambda(lgtSGs[l]),
                                         MulFix(origin_lgtSGMu(lgtSGs[l]), brdf_vis),
                                         warp.lobe, warp.lambda, warp.mu)
               IN  cosine_integral(normal, final.lobe, final.lambda, final.mu) ])

\* specular_rgb = torch.clamp(specular_rgb, min=0.)
sg_specular(normal, lgtSGs, warp, brdf_vis) ==
    ClampMin(sg_specular_sum(normal, lgtSGs, warp, brdf_vis), 0)

\* Only the diffuse term handed on as the combined radiance.
combine_rgb_diffuse_only(specular_rgb, diffuse_rgb) == diffuse_rgb

\* rgb = specular_rgb + diffuse_rgb
combine_rgb(specular_rgb, diffuse_rgb) == AddFix(specular_rgb, diffuse_rgb)

\* vis_shadow = (light_vis * origin_lgtSGMus).sum(1)
\*              / torch.clamp(origin_lgtSGMus.sum(1), 1e-4)
vis_shadow_of(lgtSGs, light_vis) ==
    DivFix(SumSeq([ l \in 1..Len(lgtSGs) |-> MulFix(light_vis[l], origin_lgtSGMu(lgtSGs[l])) ]),
           ClampMin(SumSeq([ l \in 1..Len(lgtSGs) |-> origin_lgtSGMu(lgtSGs[l]) ]), 100))

(***************************************************************************)
(* State.  Each function of the renderer is exercised as a call: its       *)
(* arguments are drawn when the call starts, the steps of its body are the *)
(* actions, and its return value is kept.                                  *)
(***************************************************************************)
VARIABLES
    sg_pc,      \* SG algebra: "call" before the body has run, "ret" after
    sg_args,    \* the arguments of the lambda_trick or hemisphere_int call
    sg_ret      \* what the call returned

sgVars == <<sg_pc, sg_args, sg_ret>>

VARIABLES
    env_pc,     \* envmap: "args", "map" once compute_envmap has run, "looked"
    env_args,   \* [lgtSGs, H, W, upper_hemi] of compute_envmap
    env_map,    \* the map compute_envmap returned
    env_query,  \* the direction given to render_envmap, its grid and pixel coordinates
    env_rgb     \* what render_envmap returned

envVars == <<env_pc, env_args, env_map, env_query, env_rgb>>

VARIABLES
    vis_pc,     \* sampler: "call", "query", "scattered", "aggregated", "trap", "ret"
    vis_args,   \* the arguments of the get_*_visibility call
    vis_rnd,    \* the draw table torch.rand produced
    vis_dirs,   \* sample_dir
    vis_mask,   \* the pairs that pass the normal test, in order
    vis_chunk,  \* the number of chunks given to the predictor so far
    vis_calls,  \* the pairs of every predictor call so far
    vis_pred,   \* pred_vis: the scores per masked pair
    vis_samp,   \* vis: the per-sample visibility
    vis_weight, \* weight_vis
    vis_mean,   \* mean_vis: the aggregated visibility
    vis_ret     \* what the call returned

visVars == <<vis_pc, vis_args, vis_rnd, vis_dirs, vis_mask, vis_chunk, vis_calls,
             vis_pred, vis_samp, vis_weight, vis_mean, vis_ret>>

VARIABLES
    rw_pc,            \* render_with_sg: "call", "lit", "diffuse", "spec_vis", "specular",
                      \* "trap", "ret", and "deferred" once a returned evaluator
                      \* has been called
    rw_args,          \* the arguments of the render_with_sg call
    rw_calls,         \* the sampler calls made so far
    rw_light_vis_gt,  \* light_vis_gt of the point, per lobe
    rw_light_vis,     \* light_vis, the visibility that shades the lights
    rw_supervise,     \* supervise
    rw_vis_shadow,    \* vis_shadow
    rw_diffuse,       \* diffuse_rgb
    rw_brdf_vis,      \* brdf_vis
    rw_specular,      \* specular_rgb
    rw_ret            \* the dictionary returned

rwVars == <<rw_pc, rw_args, rw_calls, rw_light_vis_gt, rw_light_vis, rw_supervise,
            rw_vis_shadow, rw_diffuse, rw_brdf_vis, rw_specular, rw_ret>>

VARIABLES
    all_pc,      \* render_with_all_sg: "call", "direct", "indirect", "trap", "ret"
    all_args,    \* the arguments of the render_with_all_sg call
    all_passes,  \* the render_with_sg calls made so far: arguments and result
    all_ret      \* the dictionary returned

allVars == <<all_pc, all_args, all_passes, all_ret>>

VARIABLES
    run_pc,          \* PBRTrainRunner.run and plot_to_disk: the position in them
    run_conf,        \* start_epoch, nepochs, max_niters, n_batches, ckpt_freq, plot_freq, plot_only
    epoch,           \* the loop variable epoch
    cur_iter,        \* self.cur_iter
    data_index,      \* the loop variable data_index: the batches of the epoch already trained
    epochs_begun,    \* how many times the body of the epoch loop was entered
    run_log,         \* the checkpoints saved and the plots written, in order
    model_training,  \* self.model.training: train mode or eval mode
    is_training,     \* self.is_training
    sampling_idx,    \* self.train_dataset.sampling_idx
    plot_local,      \* plot_to_disk's local sampling_idx, <<>> while unassigned
    plot_entry,      \* sampling_idx as it was when plot_to_disk was entered, <<>> outside
    plot_ret,        \* where plot_to_disk returns to
    render_testing   \* testing of the last render_with_all_sg call, <<>> before the first

runVars == <<run_pc, run_conf, epoch, cur_iter, data_index, epochs_begun, run_log,
             model_training, is_training, sampling_idx, plot_local, plot_entry, plot_ret,
             render_testing>>

vars == <<sgVars, envVars, visVars, rwVars, allVars, runVars>>

\* What the calls of one part leave alone: the state of the other parts.
notSG == <<envVars, visVars, rwVars, allVars, runVars>>

notEnv == <<sgVars, visVars, rwVars, allVars, runVars>>

notVis == <<sgVars, envVars, rwVars, allVars, runVars>>

notRender == <<sgVars, envVars, visVars, allVars, runVars>>

notAll == <<sgVars, envVars, visVars, rwVars, runVars>>

notRun == <<sgVars, envVars, visVars, rwVars, allVars>>

\* Lobe axes the calls are tried on: unit vectors, one of them oblique.
LtLobes == { <<0, 0, ONE>>, <<ONE, 0, 0>>, <<0, 0, -ONE>>, <<600000, 0, 800000>> }

\* Sharpness values: 0, the cosine lobe's and a range of light and BRDF lobes.
LtLambdas == { 0, lambda_cos, 500000, ONE, 2 * ONE, 8 * ONE }

LtMus == { 500000, ONE, mu_cos }

\* The lambda_trick calls tried; the ratio lambda1/lambda2 is kept below 16 so
\* that its square stays in range.
LtArgs ==
    { a \in [ fn : {"lambda_trick"}, lobe1 : LtLobes, lambda1 : LtLambdas,
              mu1 : LtMus, lobe2 : LtLobes, lambda2 : LtLambdas, mu2 : LtMus ] :
        a.lambda2 = 0 \/ a.lambda1 <= 16 * a.lambda2 }

HiLambdas == { 100000, 250000, 500000, ONE, 2 * ONE, 5 * ONE, 10 * ONE, 20 * ONE, 50 * ONE }

HiCosines == { -ONE, -500000, -1, 0, 1, 500000, ONE }

HiArgs == [ fn : {"hemisphere_int"}, lambda_val : HiLambdas, cos_beta : HiCosines ]

NoRet == [ fn |-> "none" ]

\* The sharpnesses and thresholds the samplers' cones are computed for: per
\* lobe or point, below, at and above the clamps; thr is 1.0 at every call of
\* the repository and fixed at 1 in get_specular_visibility.
ConeLambdas == { -ONE, 0, 50, 100, 30000, 100000, ONE, 8 * ONE, 50 * ONE, 1000 * ONE }

ConeThresholds == { 1, 100000, ONE, 10 * ONE }

ConeArgs ==
    { [fn |-> "r_phi_range", sampler |-> "diffuse", lgtSGLambdas |-> ls, thr |-> t] :
      ls \in { <<a>> : a \in ConeLambdas } \cup { <<a, b>> : a, b \in ConeLambdas },
      t \in ConeThresholds }
    \cup
    { [fn |-> "r_phi_range", sampler |-> "specular", lgtSGLambdas |-> ls, thr |-> ONE] :
      ls \in { <<a>> : a \in ConeLambdas } \cup { <<a, b>> : a, b \in ConeLambdas } }

InitSG ==
    /\ sg_pc = "call"
    /\ sg_args \in LtArgs \cup HiArgs \cup ConeArgs
    /\ sg_ret = NoRet

IdleSG ==
    /\ sg_pc = "off"
    /\ sg_args = NoRet
    /\ sg_ret = NoRet

CallLambdaTrick ==
    /\ sg_pc = "call"
    /\ sg_args.fn = "lambda_trick"
    /\ sg_ret' = lambda_trick(sg_args.lobe1, sg_args.lambda1, sg_args.mu1,
                              sg_args.lobe2, sg_args.lambda2, sg_args.mu2)
    /\ sg_pc' = "ret"
    /\ UNCHANGED <<sg_args, notSG>>

CallHemisphereInt ==
    /\ sg_pc = "call"
    /\ sg_args.fn = "hemisphere_int"
    /\ sg_ret' = LET lambda_val == AddFix(sg_args.lambda_val, TINY_NUMBER)
                  IN  [ val |-> hemisphere_int(sg_args.lambda_val, sg_args.cos_beta),
                        t   |-> hemisphere_t(lambda_val),
                        s   |-> hemisphere_s(hemisphere_t(lambda_val), sg_args.cos_beta),
                        A_b |-> hemisphere_A_b(lambda_val),
                        A_u |-> hemisphere_A_u(lambda_val) ]
    /\ sg_pc' = "ret"
    /\ UNCHANGED <<sg_args, notSG>>

\* The cone of the samplers, from the sharpnesses to r_phi_range: the clamp
\* of each sampler, the one range of the tensor, the arccos and its argument.
SampleConeAngle ==
    /\ sg_pc = "call"
    /\ sg_args.fn = "r_phi_range"
    /\ sg_ret' =
          LET n == Len(sg_args.lgtSGLambdas)
              sharpness == [ l \in 1..n |->
                               IF sg_args.sampler = "diffuse"
                               THEN diffuse_sharpness(sg_args.lgtSGLambdas[l])
                               ELSE specular_sharpness(sg_args.lgtSGLambdas[l]) ]
              sg_range == sg_range_of(sharpness, sg_args.thr)
          IN  [ sharpness |-> sharpness,
                sg_range |-> sg_range,
                cosine |-> [ l \in 1..n |-> r_phi_cosine_of(sg_range, sharpness[l]) ],
                r_phi_range |-> [ l \in 1..n |-> r_phi_range_of(sg_range, sharpness[l]) ] ]
    /\ sg_pc' = "ret"
    /\ UNCHANGED <<sg_args, notSG>>

NextSG == CallLambdaTrick \/ CallHemisphereInt \/ SampleConeAngle

\* Largest map height and width tried.
MaxH == 4

MaxW == 5

\* Light sets: one lobe along z (given with a non-unit axis), and that lobe
\* with a second, sharper one in the xy plane, off the grid's symmetry axes.
LgtSG1 == [ lobe |-> <<0, 0, 2 * ONE>>, lambda |-> 2 * ONE, mu |-> ONE ]

LgtSG2 == [ lobe |-> <<ONE, 500000, 0>>, lambda |-> -(4 * ONE), mu |-> -(1500000) ]

LgtSets == { <<LgtSG1>>, <<LgtSG1, LgtSG2>> }

\* Directions off the grid given to render_envmap: below and above the horizon.
FreeDirs == { <<0, 600000, -800000>>, <<-600000, 0, -800000>>, <<0, -600000, 800000>> }

NoQuery == [ cell |-> <<-1, -1>> ]

InitEnv ==
    /\ env_pc = "args"
    /\ env_args \in [ lgtSGs : LgtSets, H : 2..MaxH, W : 2..MaxW, upper_hemi : BOOLEAN ]
    /\ env_map = <<>>
    /\ env_query = NoQuery
    /\ env_rgb = 0

IdleEnv ==
    /\ env_pc = "off"
    /\ env_args = NoRet
    /\ env_map = <<>>
    /\ env_query = NoQuery
    /\ env_rgb = 0

ComputeEnvmap ==
    /\ env_pc = "args"
    /\ env_map' = compute_envmap(env_args.lgtSGs, env_args.H, env_args.W,
                                 env_args.upper_hemi)
    /\ env_pc' = "map"
    /\ UNCHANGED <<env_args, env_query, env_rgb, notEnv>>

\* render_envmap(envmap, viewdirs) for one direction; cell is the grid cell the
\* direction was taken from, <<-1, -1>> for a direction off the grid.
RenderEnvmapAt(cell, viewdir) ==
    \E theta \in atan2_outcomes(viewdir[2], viewdir[1]) :
        LET H == env_args.H
            W == env_args.W
            query_x == envmap_query_x(theta)
            query_y == envmap_query_y(viewdir)
            ix == grid_unnormalize(query_x, W)
            iy == grid_unnormalize(query_y, H)
        IN  /\ env_query' = [ cell |-> cell, viewdir |-> viewdir,
                              query_x |-> query_x, query_y |-> query_y,
                              ix |-> ix, iy |-> iy ]
            /\ env_rgb' = grid_sample(env_map, H, W, ix, iy)
            /\ env_pc' = "looked"
            /\ UNCHANGED <<env_args, env_map, notEnv>>

RenderEnvmapCell ==
    /\ env_pc = "map"
    /\ \E i \in 0..(env_args.H - 1), j \in 0..(env_args.W - 1) :
          RenderEnvmapAt(<<i, j>>,
                         envmap_viewdir(env_args.H, env_args.W, env_args.upper_hemi, i, j))

RenderEnvmapFree ==
    /\ env_pc = "map"
    /\ \E d \in FreeDirs : RenderEnvmapAt(<<-1, -1>>, d)

NextEnv == ComputeEnvmap \/ RenderEnvmapCell \/ RenderEnvmapFree

(***************************************************************************)
(* One call of get_diffuse_visibility or get_specular_visibility.          *)
(***************************************************************************)
\* The number of points of a batch.
NPoints == 2

\* nsamp, the number of samples of a lobe (diffuse) or of a point (specular).
NSamp == 2

\* batch_size is drawn from 1..MaxBatch, so that a call has several chunks.
MaxBatch == 3

\* The draw tables tried.
Draws == 0..3

\* The normals of the points of a diffuse call.
DiffuseNormals == { <<0, 0, ONE>>, <<ONE, 0, 0>>, <<0, 600000, -800000>> }

\* The light sets of a diffuse call: lobe axes (not normalised) and sharpnesses.
DiffuseLights ==
    { [lobes |-> << <<0, 0, ONE>> >>, lambdas |-> << 500000 >>],
      [lobes |-> << <<0, 0, ONE>>, <<ONE, 500000, 0>> >>, lambdas |-> << 500000, 8 * ONE >>],
      [lobes |-> << <<600000, 0, -800000>> >>, lambdas |-> << 2 * ONE >>] }

DiffuseCalls ==
    { [fn |-> "diffuse", normals |-> ns, viewdirs |-> <<>>,
       lgtSGLobes |-> lgt.lobes, lgtSGLambdas |-> lgt.lambdas,
       nsamp |-> NSamp, thr |-> ONE, bounding |-> b, argmax_vis |-> am,
       inv |-> FALSE, multi_view |-> FALSE, VisModel |-> m, batch_size |-> bs] :
      ns \in [1..NPoints -> DiffuseNormals], lgt \in DiffuseLights,
      b \in BOOLEAN, am \in BOOLEAN, m \in VisModels, bs \in 1..MaxBatch }

\* The surface points of a specular call: normal, view direction, roughness.
SurfacePoints ==
    { [normal |-> <<0, 0, ONE>>, viewdir |-> <<0, 0, ONE>>, roughness |-> 500000],
      [normal |-> <<0, 0, ONE>>, viewdir |-> <<600000, 0, 800000>>, roughness |-> ONE],
      [normal |-> <<0, 600000, 800000>>, viewdir |-> <<0, 0, ONE>>, roughness |-> 300000] }

\* The reduction modes of a specular call.
SpecularModes ==
    { [inv |-> FALSE, argmax_vis |-> FALSE, multi_view |-> FALSE],
      [inv |-> TRUE,  argmax_vis |-> FALSE, multi_view |-> FALSE],
      [inv |-> FALSE, argmax_vis |-> TRUE,  multi_view |-> FALSE],
      [inv |-> TRUE,  argmax_vis |-> TRUE,  multi_view |-> FALSE],
      [inv |-> FALSE, argmax_vis |-> FALSE, multi_view |-> TRUE] }

\* The call render_with_sg makes for the surface points pts.
specular_call(pts, mode, m, bs) ==
    [fn |-> "specular",
     normals |-> [ p \in 1..Len(pts) |-> pts[p].normal ],
     viewdirs |-> [ p \in 1..Len(pts) |-> pts[p].viewdir ],
     lgtSGLobes |-> [ p \in 1..Len(pts) |-> warp_brdf_lobe(pts[p].normal, pts[p].viewdir) ],
     lgtSGLambdas |-> [ p \in 1..Len(pts) |->
                          warp_brdf_lambda(pts[p].normal, pts[p].viewdir, pts[p].roughness) ],
     nsamp |-> NSamp, thr |-> ONE, bounding |-> FALSE, argmax_vis |-> mode.argmax_vis,
     inv |-> mode.inv, multi_view |-> mode.multi_view, VisModel |-> m, batch_size |-> bs]

SpecularCalls ==
    { specular_call(pts, mode, m, bs) :
      pts \in [1..NPoints -> SurfacePoints], mode \in SpecularModes,
      m \in VisModels, bs \in 1..MaxBatch }

\* What the directions and weights of a call depend on.  The diffuse sampler
\* reads neither the normals nor a view direction before the normal test.
call_geometry(a) ==
    [fn |-> a.fn, normals |-> IF a.fn = "diffuse" THEN <<>> ELSE a.normals,
     viewdirs |-> a.viewdirs, lgtSGLobes |-> a.lgtSGLobes, lgtSGLambdas |-> a.lgtSGLambdas,
     nsamp |-> a.nsamp, thr |-> a.thr]

\* sample_dir and weight_vis of every call and draw table, evaluated once.
SampleTable ==
    [ g \in { call_geometry(a) : a \in DiffuseCalls \cup SpecularCalls } |->
        [ draw \in Draws |->
            [dirs |-> sample_dirs_of(g, draw),
             weights |-> weights_of(g, sample_dirs_of(g, draw))] ] ]

sampled(a, draw) == SampleTable[call_geometry(a)][draw]

\* The aggregated visibility of a whole call in one piece: every masked pair
\* given to the predictor in a single call.
visibility_of(a, draw) ==
    LET dirs == sampled(a, draw).dirs
        mask == masked_pairs(a, dirs)
        red  == [ k \in 1..Len(mask) |->
                    reduce_scores(VisModel(a.VisModel, mask[k][1], pair_dir(a, dirs, mask[k])),
                                  a.inv, a.argmax_vis, a.multi_view) ]
    IN  aggregate_vis(a, sampled(a, draw).weights, scatter_vis(a, mask, red))

InitVis ==
    /\ vis_pc = "call"
    /\ vis_args \in DiffuseCalls \cup SpecularCalls
    /\ vis_rnd = -1
    /\ vis_dirs = <<>>
    /\ vis_mask = <<>>
    /\ vis_chunk = 0
    /\ vis_calls = <<>>
    /\ vis_pred = <<>>
    /\ vis_samp = <<>>
    /\ vis_weight = <<>>
    /\ vis_mean = <<>>
    /\ vis_ret = NoRet

IdleVis ==
    /\ vis_pc = "off"
    /\ vis_args = NoRet
    /\ vis_rnd = -1
    /\ vis_dirs = <<>>
    /\ vis_mask = <<>>
    /\ vis_chunk = 0
    /\ vis_calls = <<>>
    /\ vis_pred = <<>>
    /\ vis_samp = <<>>
    /\ vis_weight = <<>>
    /\ vis_mean = <<>>
    /\ vis_ret = NoRet

\* The directions are drawn, the normal test is made and pred_vis is zeroed.
SampleDirections ==
    /\ vis_pc = "call"
    /\ \E draw \in Draws :
         LET dirs == sampled(vis_args, draw).dirs
             mask == masked_pairs(vis_args, dirs)
         IN  /\ vis_rnd' = draw
             /\ vis_dirs' = dirs
             /\ vis_mask' = mask
             /\ vis_pred' = [ k \in 1..Len(mask) |-> <<0, 0>> ]
    /\ vis_pc' = "query"
    /\ UNCHANGED <<vis_args, vis_chunk, vis_calls, vis_samp, vis_weight, vis_mean, vis_ret,
                   notVis>>

\* One turn of the loop over torch.split: the predictor is given a chunk and
\* its scores are stored at the chunk's indices.
QueryChunk ==
    /\ vis_pc = "query"
    /\ vis_chunk < split_count(Len(vis_mask), vis_args.batch_size)
    /\ LET indx == split_chunk(Len(vis_mask), vis_args.batch_size, vis_chunk)
       IN  /\ vis_calls' = Append(vis_calls, [ j \in 1..Len(indx) |-> vis_mask[indx[j]] ])
           /\ vis_pred' = [ k \in 1..Len(vis_mask) |->
                              IF \E j \in 1..Len(indx) : indx[j] = k
                              THEN VisModel(vis_args.VisModel, vis_mask[k][1],
                                            pair_dir(vis_args, vis_dirs, vis_mask[k]))
                              ELSE vis_pred[k] ]
    /\ vis_chunk' = vis_chunk + 1
    /\ UNCHANGED <<vis_pc, vis_args, vis_rnd, vis_dirs, vis_mask, vis_samp, vis_mean,
                   vis_ret, vis_weight, notVis>>

\* After the loop: the scores are reduced to visibilities and scattered into
\* the zero tensor.
ScatterVisibility ==
    /\ vis_pc = "query"
    /\ vis_chunk = split_count(Len(vis_mask), vis_args.batch_size)
    /\ vis_samp' = scatter_vis(vis_args, vis_mask,
                               [ k \in 1..Len(vis_mask) |->
                                   reduce_scores(vis_pred[k], vis_args.inv,
                                                 vis_args.argmax_vis, vis_args.multi_view) ])
    /\ vis_pc' = "scattered"
    /\ UNCHANGED <<vis_args, vis_rnd, vis_dirs, vis_mask, vis_chunk, vis_calls, vis_pred,
                   vis_mean, vis_ret, vis_weight, notVis>>

\* The weighted mean over the samples.
AggregateVisibility ==
    /\ vis_pc = "scattered"
    /\ vis_weight' = sampled(vis_args, vis_rnd).weights
    /\ vis_mean' = aggregate_vis(vis_args, vis_weight', vis_samp)
    /\ vis_pc' = "aggregated"
    /\ UNCHANGED <<vis_args, vis_rnd, vis_dirs, vis_mask, vis_chunk, vis_calls, vis_pred,
                   vis_samp, vis_ret, notVis>>

\* if bounding: return vis
ReturnBounding ==
    /\ vis_pc = "aggregated"
    /\ vis_args.bounding
    /\ vis_ret' = [kind |-> "samples", val |-> vis_samp]
    /\ vis_pc' = "ret"
    /\ UNCHANGED <<vis_args, vis_rnd, vis_dirs, vis_mask, vis_chunk, vis_calls, vis_pred,
                   vis_samp, vis_mean, vis_weight, notVis>>

\* if torch.isnan(vis).sum() > 0: ipdb.set_trace().  The call stops in the
\* debugger: it does not return.
TrapNaN ==
    /\ vis_pc = "aggregated"
    /\ ~vis_args.bounding
    /\ any_nan(vis_mean)
    /\ vis_pc' = "trap"
    /\ UNCHANGED <<vis_args, vis_rnd, vis_dirs, vis_mask, vis_chunk, vis_calls, vis_pred,
                   vis_samp, vis_mean, vis_ret, vis_weight, notVis>>

\* return vis
ReturnVisibility ==
    /\ vis_pc = "aggregated"
    /\ ~vis_args.bounding
    /\ ~any_nan(vis_mean)
    /\ vis_ret' = [kind |-> "mean", val |-> vis_mean]
    /\ vis_pc' = "ret"
    /\ UNCHANGED <<vis_args, vis_rnd, vis_dirs, vis_mask, vis_chunk, vis_calls, vis_pred,
                   vis_samp, vis_mean, vis_weight, notVis>>

NextVis ==
    \/ SampleDirections
    \/ QueryChunk
    \/ ScatterVisibility
    \/ AggregateVisibility
    \/ ReturnBounding
    \/ TrapNaN
    \/ ReturnVisibility

(***************************************************************************)
(* One call of render_with_sg, for one point, one view and one colour      *)
(* channel.  The two samplers are called for their results: a visibility   *)
(* in [0, 1] per lobe or point, or no return at all when the sampler traps.*)
(***************************************************************************)
\* The surface normal and view direction of the point.
RenderGeometries ==
    { [normal |-> <<0, 0, ONE>>, viewdir |-> <<600000, 0, 800000>>],
      [normal |-> <<0, 600000, 800000>>, viewdir |-> <<0, 0, ONE>>] }

\* Points seen from behind and at grazing incidence: dot(normal, view) is
\* -0.8 and 0.
BackFacingGeometries ==
    { [normal |-> <<0, 0, ONE>>, viewdir |-> <<600000, 0, -800000>>],
      [normal |-> <<0, 0, ONE>>, viewdir |-> <<ONE, 0, 0>>] }

\* The roughness of the back-facing points.  Their warped sharpness is
\* (2 / roughness^4) / TINY_NUMBER, which is within the fixed-point range
\* (roughness^4 and twice the sharpness below 2147) for roughness 6.7 only.
BackFacingRoughness == 6700000

\* The light sets: rows [lobe, lambda, mu] of lgtSGs.  The last has a lobe of
\* sharpness 0.
RenderLights ==
    { << [lobe |-> <<0, 0, 2 * ONE>>, lambda |-> 5 * ONE, mu |-> ONE] >>,
      << [lobe |-> <<0, 0, -ONE>>, lambda |-> 2 * ONE, mu |-> 800000],
         [lobe |-> <<ONE, 0, ONE>>, lambda |-> -10 * ONE, mu |-> -500000] >>,
      << [lobe |-> <<0, 0, ONE>>, lambda |-> 0, mu |-> ONE] >> }

\* diffuse_vis and prefit: no diffuse_vis, or one with each kind of prefit.
RenderPrefits ==
    { [given |-> FALSE, prefit |-> "False"],
      [given |-> TRUE, prefit |-> "warmup"],
      [given |-> TRUE, prefit |-> "project"],
      [given |-> TRUE, prefit |-> "False"] }

\* The caller's diffuse_vis for n_lobe lobes.
given_diffuse_vis(n_lobe) == [ l \in 1..n_lobe |-> 300000 + 200000 * (l - 1) ]

RenderCalls ==
    { [normal |-> g.normal, viewdirs |-> g.viewdir, lgtSGs |-> lgt,
       specular_reflectance |-> 20000, roughness |-> r, diffuse_albedo |-> alb,
       comp_vis |-> cv, fun_spec |-> fs, lin_diff |-> ld, indir_integral |-> ind,
       metallic |-> met,
       diffuse_vis |-> IF pf.given THEN <<given_diffuse_vis(Len(lgt))>> ELSE <<>>,
       prefit |-> pf.prefit, argmax_vis |-> FALSE] :
      g \in RenderGeometries, lgt \in RenderLights, r \in {500000, ONE},
      alb \in {800000, ONE}, cv \in BOOLEAN, fs \in BOOLEAN, ld \in BOOLEAN,
      ind \in {<<>>, <<500000>>, <<-300000>>}, met \in {<<>>, <<500000>>},
      pf \in RenderPrefits }
    \cup
    { [normal |-> g.normal, viewdirs |-> g.viewdir, lgtSGs |-> lgt,
       specular_reflectance |-> 20000, roughness |-> BackFacingRoughness,
       diffuse_albedo |-> 800000, comp_vis |-> cv, fun_spec |-> fs, lin_diff |-> FALSE,
       indir_integral |-> ind, metallic |-> met, diffuse_vis |-> <<>>,
       prefit |-> "False", argmax_vis |-> FALSE] :
      g \in BackFacingGeometries, lgt \in RenderLights, cv \in BOOLEAN, fs \in BOOLEAN,
      ind \in {<<>>, <<500000>>}, met \in {<<>>, <<500000>>} }

\* The visibilities a sampler returns for a lobe or a point.
VisValues == {0, 400000, ONE}

\* The sampled visibility of every lobe, the same for all of them or falling
\* from lobe to lobe.
LightVisValues(n_lobe) ==
    { [ l \in 1..n_lobe |-> v ] : v \in VisValues }
      \cup { [ l \in 1..n_lobe |-> ONE \div l ] }

\* What sg_diffuse reads, and its value for every call, evaluated once.
diffuse_key(a, light_vis) ==
    [normal |-> a.normal, lgtSGs |-> a.lgtSGs, diffuse_albedo |-> a.diffuse_albedo,
     comp_vis |-> a.comp_vis, lin_diff |-> a.lin_diff, light_vis |-> light_vis]

DiffuseTable ==
    [ k \in { diffuse_key(a, lv) :
              a \in RenderCalls,
              lv \in {<<>>} \cup LightVisValues(1) \cup LightVisValues(2)
                     \cup { given_diffuse_vis(1), given_diffuse_vis(2) } } |->
        IF k.comp_vis /\ Len(k.light_vis) # Len(k.lgtSGs) THEN 0
        ELSE sg_diffuse(k.normal, k.lgtSGs, k.diffuse_albedo, k.comp_vis, k.lin_diff,
                        k.light_vis) ]

\* What specular_rgb_fn reads, and its value for every call, evaluated once.
specular_key(a, brdf_vis) ==
    [normal |-> a.normal, viewdirs |-> a.viewdirs, lgtSGs |-> a.lgtSGs,
     specular_reflectance |-> a.specular_reflectance, roughness |-> a.roughness,
     diffuse_albedo |-> a.diffuse_albedo, metallic |-> a.metallic, brdf_vis |-> brdf_vis]

SpecularTable ==
    [ k \in { specular_key(a, bv) : a \in RenderCalls, bv \in VisValues } |->
        sg_specular(k.normal, k.lgtSGs,
                    warp_brdf(k.normal, k.viewdirs, k.roughness, k.specular_reflectance,
                              k.metallic, k.diffuse_albedo),
                    k.brdf_vis) ]

\* supervise = kl_divergence(|light_vis_gt - light_vis|, 0.01) * scale, kept as
\* the scale and the absolute differences; kl_divergence is utils.utils'.
NoSupervise == [scale |-> 0, abs_diff |-> <<>>]

\* The weight of the mode left out: the divergence as it is.
supervise_unweighted(prefit, light_vis_gt, diffuse_vis) ==
    [scale |-> ONE,
     abs_diff |-> [ l \in 1..Len(light_vis_gt) |-> AbsFix(light_vis_gt[l] - diffuse_vis[l]) ]]

supervise_of(prefit, light_vis_gt, diffuse_vis) ==
    [scale |-> IF prefit = "warmup" THEN 100000
               ELSE IF prefit = "project" THEN 200000 ELSE ONE,
     abs_diff |-> [ l \in 1..Len(light_vis_gt) |-> AbsFix(light_vis_gt[l] - diffuse_vis[l]) ]]

InitRender ==
    /\ rw_pc = "call"
    /\ rw_args \in RenderCalls
    /\ rw_calls = <<>>
    /\ rw_light_vis_gt = <<>>
    /\ rw_light_vis = <<>>
    /\ rw_supervise = NoSupervise
    /\ rw_vis_shadow = 0
    /\ rw_diffuse = 0
    /\ rw_brdf_vis = <<>>
    /\ rw_specular = <<>>
    /\ rw_ret = NoRet

IdleRender ==
    /\ rw_pc = "off"
    /\ rw_args = NoRet
    /\ rw_calls = <<>>
    /\ rw_light_vis_gt = <<>>
    /\ rw_light_vis = <<>>
    /\ rw_supervise = NoSupervise
    /\ rw_vis_shadow = 0
    /\ rw_diffuse = 0
    /\ rw_brdf_vis = <<>>
    /\ rw_specular = <<>>
    /\ rw_ret = NoRet

\* The call of get_diffuse_visibility that render_with_sg makes.
diffuse_vis_call(a) ==
    [fn |-> "get_diffuse_visibility", nsamp |-> IF a.diffuse_vis = <<>> THEN 32 ELSE 8,
     inv |-> FALSE, argmax_vis |-> a.argmax_vis]

\* The call with the mode of the light sampler: never inverted.
specular_vis_call_never_inverted(a) ==
    [fn |-> "get_specular_visibility", nsamp |-> 8, inv |-> FALSE,
     argmax_vis |-> a.argmax_vis]

\* The call of get_specular_visibility that specular_rgb_fn makes.
specular_vis_call(a) ==
    [fn |-> "get_specular_visibility", nsamp |-> 8, inv |-> ~a.comp_vis,
     argmax_vis |-> a.argmax_vis]

\* The sampled visibility whatever the caller supplies.
light_vis_sampled_only(a, light_vis_gt) == light_vis_gt

\* The visibility that shades the lights of a call with comp_vis: the
\* caller's diffuse_vis, or the sampled one when there is none or prefit is
\* "warmup".
light_vis_of(a, light_vis_gt) ==
    IF a.diffuse_vis = <<>> \/ a.prefit = "warmup" THEN light_vis_gt ELSE a.diffuse_vis[1]

\* if comp_vis: the light visibility is sampled; light_vis, supervise and
\* vis_shadow follow from it and from diffuse_vis and prefit.
SampleLightVisibility ==
    /\ rw_pc = "call"
    /\ rw_args.comp_vis
    /\ \E gt \in LightVisValues(Len(rw_args.lgtSGs)) :
         /\ rw_light_vis_gt' = gt
         /\ rw_light_vis' = light_vis_of(rw_args, gt)
         /\ rw_supervise' = IF rw_args.diffuse_vis = <<>> THEN NoSupervise
                            ELSE supervise_of(rw_args.prefit, gt, rw_args.diffuse_vis[1])
    /\ rw_vis_shadow' = vis_shadow_of(rw_args.lgtSGs, rw_light_vis')
    /\ rw_calls' = Append(rw_calls, diffuse_vis_call(rw_args))
    /\ rw_pc' = "lit"
    /\ UNCHANGED <<rw_args, rw_diffuse, rw_brdf_vis, rw_specular, rw_ret, notRender>>

\* else: no sampler call; vis_shadow stays zero and supervise is 0.
SkipLightVisibility ==
    /\ rw_pc = "call"
    /\ ~rw_args.comp_vis
    /\ rw_pc' = "lit"
    /\ UNCHANGED <<rw_args, rw_calls, rw_light_vis_gt, rw_light_vis, rw_supervise,
                   rw_vis_shadow, rw_diffuse, rw_brdf_vis, rw_specular, rw_ret, notRender>>

\* A sampler call that stops in its own NaN trap does not return.
SamplerTraps ==
    /\ \/ rw_pc = "call" /\ rw_args.comp_vis
          /\ rw_calls' = Append(rw_calls, diffuse_vis_call(rw_args))
       \/ rw_pc = "diffuse" /\ ~IsNaN(rw_diffuse) /\ ~rw_args.fun_spec
          /\ rw_calls' = Append(rw_calls, specular_vis_call(rw_args))
       \/ rw_pc = "ret" /\ rw_args.fun_spec
          /\ rw_calls' = Append(rw_calls, specular_vis_call(rw_args))
    /\ rw_pc' = "trap"
    /\ UNCHANGED <<rw_args, rw_light_vis_gt, rw_light_vis, rw_supervise, rw_vis_shadow,
                   rw_diffuse, rw_brdf_vis, rw_specular, rw_ret, notRender>>

\* The diffuse term: the clamped hemisphere integral, then the precomputed
\* integral in its place when one is given.
ShadeDiffuse ==
    /\ rw_pc = "lit"
    /\ rw_diffuse' = diffuse_override(DiffuseTable[diffuse_key(rw_args, rw_light_vis)],
                                      rw_args.indir_integral, rw_args.diffuse_albedo,
                                      rw_args.lin_diff)
    /\ rw_pc' = "diffuse"
    /\ UNCHANGED <<rw_args, rw_calls, rw_light_vis_gt, rw_light_vis, rw_supervise,
                   rw_vis_shadow, rw_brdf_vis, rw_specular, rw_ret, notRender>>

\* if torch.isnan(diffuse_rgb).sum() > 0, if torch.isnan(specular_rgb).sum() > 0:
\* ipdb.set_trace().  The call stops in the debugger: it does not return.
TrapRenderNaN ==
    /\ \/ rw_pc = "diffuse" /\ IsNaN(rw_diffuse)
       \/ rw_pc = "specular" /\ IsNaN(rw_specular[1])
    /\ rw_pc' = "trap"
    /\ UNCHANGED <<rw_args, rw_calls, rw_light_vis_gt, rw_light_vis, rw_supervise,
                   rw_vis_shadow, rw_diffuse, rw_brdf_vis, rw_specular, rw_ret, notRender>>

\* if fun_spec: the dictionary with the evaluator specular_rgb_fn itself, here
\* <<>>, in the place of a specular radiance.
ReturnDeferred ==
    /\ rw_pc = "diffuse"
    /\ ~IsNaN(rw_diffuse)
    /\ rw_args.fun_spec
    /\ rw_ret' = [sg_rgb |-> rw_diffuse, sg_specular_rgb |-> <<>>,
                  sg_diffuse_rgb |-> rw_diffuse, vis_shadow |-> rw_vis_shadow,
                  supervise |-> rw_supervise]
    /\ rw_pc' = "ret"
    /\ UNCHANGED <<rw_args, rw_calls, rw_light_vis_gt, rw_light_vis, rw_supervise,
                   rw_vis_shadow, rw_diffuse, rw_brdf_vis, rw_specular, notRender>>

\* specular_rgb_fn(roughness), up to the return of get_specular_visibility.
SampleSpecularVisibility ==
    /\ rw_pc = "diffuse"
    /\ ~IsNaN(rw_diffuse)
    /\ ~rw_args.fun_spec
    /\ \E bv \in VisValues : rw_brdf_vis' = <<bv>>
    /\ rw_calls' = Append(rw_calls, specular_vis_call(rw_args))
    /\ rw_pc' = "spec_vis"
    /\ UNCHANGED <<rw_args, rw_light_vis_gt, rw_light_vis, rw_supervise, rw_vis_shadow,
                   rw_diffuse, rw_specular, rw_ret, notRender>>

\* The rest of specular_rgb_fn: the clamped hemisphere integral of the product
\* of the lights, the warped BRDF lobe and the cosine.
ShadeSpecular ==
    /\ rw_pc = "spec_vis"
    /\ rw_specular' = <<SpecularTable[specular_key(rw_args, rw_brdf_vis[1])]>>
    /\ rw_pc' = "specular"
    /\ UNCHANGED <<rw_args, rw_calls, rw_light_vis_gt, rw_light_vis, rw_supervise,
                   rw_vis_shadow, rw_diffuse, rw_brdf_vis, rw_ret, notRender>>

\* rgb = specular_rgb + diffuse_rgb; return ret
ReturnCombined ==
    /\ rw_pc = "specular"
    /\ ~IsNaN(rw_specular[1])
    /\ rw_ret' = [sg_rgb |-> combine_rgb(rw_specular[1], rw_diffuse),
                  sg_specular_rgb |-> rw_specular, sg_diffuse_rgb |-> rw_diffuse,
                  vis_shadow |-> rw_vis_shadow, supervise |-> rw_supervise]
    /\ rw_pc' = "ret"
    /\ UNCHANGED <<rw_args, rw_calls, rw_light_vis_gt, rw_light_vis, rw_supervise,
                   rw_vis_shadow, rw_diffuse, rw_brdf_vis, rw_specular, notRender>>

\* The caller calls the evaluator that a deferred call returned,
\* ret['sg_specular_rgb'](roughness): the whole of specular_rgb_fn runs now,
\* its sampler call and its NaN test included.
EvaluateDeferred ==
    /\ rw_pc = "ret"
    /\ rw_args.fun_spec
    /\ \E bv \in VisValues :
         /\ rw_brdf_vis' = <<bv>>
         /\ rw_specular' = <<SpecularTable[specular_key(rw_args, bv)]>>
    /\ rw_calls' = Append(rw_calls, specular_vis_call(rw_args))
    /\ rw_pc' = IF IsNaN(rw_specular'[1]) THEN "trap" ELSE "deferred"
    /\ UNCHANGED <<rw_args, rw_light_vis_gt, rw_light_vis, rw_supervise, rw_vis_shadow,
                   rw_diffuse, rw_ret, notRender>>

NextRender ==
    \/ SampleLightVisibility
    \/ SkipLightVisibility
    \/ SamplerTraps
    \/ ShadeDiffuse
    \/ TrapRenderNaN
    \/ ReturnDeferred
    \/ SampleSpecularVisibility
    \/ ShadeSpecular
    \/ ReturnCombined
    \/ EvaluateDeferred

(***************************************************************************)
(* One call of render_with_all_sg: the direct pass of render_with_sg, then *)
(* the indirect pass when indir_lgtSGs is given.  A pass is taken as a     *)
(* whole, with the visibilities its sampler calls return.                  *)
(***************************************************************************)
Trapped == [trap |-> TRUE]

\* The dictionary that render_with_sg returns from its terms, or Trapped when
\* a NaN test stops the call; in deferred mode the specular term is not
\* evaluated.
render_ret(fun_spec, diffuse_rgb, specular_rgb, vis_shadow, supervise) ==
    IF IsNaN(diffuse_rgb) THEN Trapped
    ELSE IF fun_spec
    THEN [sg_rgb |-> diffuse_rgb, sg_specular_rgb |-> <<>>,
          sg_diffuse_rgb |-> diffuse_rgb, vis_shadow |-> vis_shadow,
          supervise |-> supervise]
    ELSE IF IsNaN(specular_rgb) THEN Trapped
    ELSE [sg_rgb |-> combine_rgb(specular_rgb, diffuse_rgb),
          sg_specular_rgb |-> <<specular_rgb>>, sg_diffuse_rgb |-> diffuse_rgb,
          vis_shadow |-> vis_shadow, supervise |-> supervise]

\* What a call a of render_with_sg returns when its samplers return
\* light_vis_gt and brdf_vis.
render_with_sg(a, light_vis_gt, brdf_vis) ==
    render_ret(a.fun_spec,
               diffuse_override(
                   DiffuseTable[diffuse_key(a, IF a.comp_vis
                                               THEN light_vis_of(a, light_vis_gt)
                                               ELSE <<>>)],
                   a.indir_integral, a.diffuse_albedo, a.lin_diff),
               SpecularTable[specular_key(a, brdf_vis)],
               IF a.comp_vis
               THEN vis_shadow_of(a.lgtSGs, light_vis_of(a, light_vis_gt))
               ELSE 0,
               IF a.comp_vis /\ a.diffuse_vis # <<>>
               THEN supervise_of(a.prefit, light_vis_gt, a.diffuse_vis[1])
               ELSE NoSupervise)

\* The indirect pass given no precomputed integral.
indirect_call_without_integral(a) ==
    [normal |-> a.normal, viewdirs |-> a.viewdirs, lgtSGs |-> a.indir_lgtSGs[1],
     specular_reflectance |-> a.specular_reflectance, roughness |-> a.roughness,
     diffuse_albedo |-> a.diffuse_albedo, comp_vis |-> FALSE, fun_spec |-> a.fun_spec,
     lin_diff |-> a.lin_diff, indir_integral |-> <<>>, metallic |-> a.metallic,
     diffuse_vis |-> <<>>, prefit |-> "False", argmax_vis |-> a.argmax_vis]

\* The arguments of the direct pass: comp_vis=True, no indir_integral.
direct_call(a) ==
    [normal |-> a.normal, viewdirs |-> a.viewdirs, lgtSGs |-> a.lgtSGs,
     specular_reflectance |-> a.specular_reflectance, roughness |-> a.roughness,
     diffuse_albedo |-> a.diffuse_albedo, comp_vis |-> TRUE, fun_spec |-> a.fun_spec,
     lin_diff |-> a.lin_diff, indir_integral |-> <<>>, metallic |-> a.metallic,
     diffuse_vis |-> a.diffuse_vis, prefit |-> a.prefit, argmax_vis |-> a.argmax_vis]

\* The arguments of the indirect pass: indir_lgtSGs as the lights,
\* comp_vis=False, indir_integral, diffuse_vis=None and prefit left at False.
indirect_call(a) ==
    [normal |-> a.normal, viewdirs |-> a.viewdirs, lgtSGs |-> a.indir_lgtSGs[1],
     specular_reflectance |-> a.specular_reflectance, roughness |-> a.roughness,
     diffuse_albedo |-> a.diffuse_albedo, comp_vis |-> FALSE, fun_spec |-> a.fun_spec,
     lin_diff |-> a.lin_diff, indir_integral |-> a.indir_integral, metallic |-> a.metallic,
     diffuse_vis |-> <<>>, prefit |-> "False", argmax_vis |-> a.argmax_vis]

\* torch.zeros_like(points)
ZeroIndirect == [indir_rgb |-> 0, indir_diffuse_rgb |-> 0, indir_specular_rgb |-> <<0>>]

AllCalls ==
    { [normal |-> g.normal, viewdirs |-> g.viewdir, lgtSGs |-> lgt,
       specular_reflectance |-> 20000, roughness |-> r, diffuse_albedo |-> 800000,
       fun_spec |-> fs, lin_diff |-> ld, indir_integral |-> ind, indir_lgtSGs |-> ilgt,
       metallic |-> <<>>,
       diffuse_vis |-> IF pf.given THEN <<given_diffuse_vis(Len(lgt))>> ELSE <<>>,
       prefit |-> pf.prefit, argmax_vis |-> FALSE] :
      g \in RenderGeometries, lgt \in RenderLights, r \in {500000, ONE},
      fs \in BOOLEAN, ld \in BOOLEAN, ind \in {<<>>, <<500000>>, <<-300000>>},
      ilgt \in {<<>>} \cup { <<l>> : l \in RenderLights }, pf \in RenderPrefits }

InitAll ==
    /\ all_pc = "call"
    /\ all_args \in AllCalls
    /\ all_passes = <<>>
    /\ all_ret = NoRet

IdleAll ==
    /\ all_pc = "off"
    /\ all_args = NoRet
    /\ all_passes = <<>>
    /\ all_ret = NoRet

\* ret = render_with_sg(..., lgtSGs, ..., comp_vis=True, ...)
DirectPass ==
    /\ all_pc = "call"
    /\ \E gt \in LightVisValues(Len(all_args.lgtSGs)), bv \in VisValues :
         all_passes' = Append(all_passes,
                              [args |-> direct_call(all_args),
                               ret  |-> render_with_sg(direct_call(all_args), gt, bv)])
    /\ all_pc' = IF all_passes'[1].ret = Trapped THEN "trap" ELSE "direct"
    /\ UNCHANGED <<all_args, all_ret, notAll>>

\* if indir_lgtSGs is not None: ret_indir = render_with_sg(..., indir_lgtSGs,
\* ..., comp_vis=False, ..., indir_integral=indir_integral, ...)
IndirectPass ==
    /\ all_pc = "direct"
    /\ all_args.indir_lgtSGs # <<>>
    /\ \E bv \in VisValues :
         all_passes' = Append(all_passes,
                              [args |-> indirect_call(all_args),
                               ret  |-> render_with_sg(indirect_call(all_args), <<>>, bv)])
    /\ all_pc' = IF all_passes'[2].ret = Trapped THEN "trap" ELSE "indirect"
    /\ UNCHANGED <<all_args, all_ret, notAll>>

\* ret.update({'indir_rgb': ..., 'indir_diffuse_rgb': ...,
\* 'indir_specular_rgb': ...}); return ret
ReturnAll ==
    /\ \/ all_pc = "direct" /\ all_args.indir_lgtSGs = <<>>
       \/ all_pc = "indirect"
    /\ all_ret' = all_passes[1].ret @@
                   (IF all_pc = "indirect"
                    THEN [indir_rgb |-> all_passes[2].ret.sg_rgb,
                          indir_diffuse_rgb |-> all_passes[2].ret.sg_diffuse_rgb,
                          indir_specular_rgb |-> all_passes[2].ret.sg_specular_rgb]
                    ELSE ZeroIndirect)
    /\ all_pc' = "ret"
    /\ UNCHANGED <<all_args, all_passes, notAll>>

NextAll == DirectPass \/ IndirectPass \/ ReturnAll

(***************************************************************************)
(* PBRTrainRunner.run: the training loop, with plot_to_disk and the        *)
(* testing flag that get_sg_render hands to render_with_all_sg.            *)
(***************************************************************************)
\* for epoch in range(self.start_epoch, self.nepochs + 101)
EpochSlack == 101

\* The epoch that save_checkpoints is given when plot_only holds.
PlotOnlyEpoch == 10000

\* The largest number of batches of the training data loader.
MaxBatches == 3

\* What change_sampling_idx(self.num_pixels) may leave in sampling_idx: a
\* drawn set of pixels.  change_sampling_idx(-1) leaves AllPixels.
DrawnPixels == {"drawn_a", "drawn_b"}

AllPixels == "all"

\* The configurations and checkpoints a run starts from.
RunConfs ==
    { [start_epoch |-> se, nepochs |-> ne, max_niters |-> mx, n_batches |-> nb,
       ckpt_freq |-> cf, plot_freq |-> pf, plot_only |-> po] :
      se \in {0, 2, 100, 102, 104}, ne \in {1, 2}, mx \in {0, 4, 5, 1000},
      nb \in 1..MaxBatches, cf \in {2, 3}, pf \in {1, 3}, po \in BOOLEAN }

\* if self.cur_iter >= self.max_niters
limit_reached_inclusive(iter, max_niters) == iter >= max_niters

\* if self.cur_iter > self.max_niters
limit_reached(iter, max_niters) == iter > max_niters

\* Nothing is put back: sampling_idx stays as plot_to_disk set it.
sampling_idx_left(saved, current) == current

\* self.train_dataset.sampling_idx = sampling_idx
sampling_idx_restored(saved, current) == saved

\* testing=not self.is_training
testing_of(training) == ~training

\* save_checkpoints(epoch) and the plot that plot_to_disk writes under cur_iter.
Checkpoint(e) == [ev |-> "checkpoint", epoch |-> e, iter |-> cur_iter]

Plot == [ev |-> "plot", epoch |-> epoch, iter |-> cur_iter]

InitRun ==
    /\ run_pc = "call"
    /\ run_conf \in RunConfs
    /\ epoch = 0
    /\ cur_iter = 0
    /\ data_index = 0
    /\ epochs_begun = 0
    /\ run_log = <<>>
    /\ model_training \in BOOLEAN
    /\ is_training = FALSE
    /\ sampling_idx \in DrawnPixels \cup {AllPixels}
    /\ plot_local = <<>>
    /\ plot_entry = <<>>
    /\ plot_ret = "none"
    /\ render_testing = <<>>

IdleRun ==
    /\ run_pc = "off"
    /\ run_conf = NoRet
    /\ epoch = 0
    /\ cur_iter = 0
    /\ data_index = 0
    /\ epochs_begun = 0
    /\ run_log = <<>>
    /\ model_training = TRUE
    /\ is_training = FALSE
    /\ sampling_idx = AllPixels
    /\ plot_local = <<>>
    /\ plot_entry = <<>>
    /\ plot_ret = "none"
    /\ render_testing = <<>>

\* run() up to the loop: cur_iter = start_epoch * len(train_dataloader),
\* is_training = True; with plot_only a checkpoint and the call of
\* plot_to_disk.
BeginRun ==
    /\ run_pc = "call"
    /\ cur_iter' = run_conf.start_epoch * run_conf.n_batches
    /\ is_training' = TRUE
    /\ epoch' = run_conf.start_epoch
    /\ IF run_conf.plot_only
       THEN /\ run_log' = Append(run_log, [ev |-> "checkpoint", epoch |-> PlotOnlyEpoch,
                                           iter |-> cur_iter'])
            /\ run_pc' = "plot"
            /\ plot_ret' = "return"
       ELSE /\ run_pc' = "epoch"
            /\ UNCHANGED <<run_log, plot_ret>>
    /\ UNCHANGED <<run_conf, data_index, epochs_begun, model_training, sampling_idx,
                   plot_local, plot_entry, render_testing, notRun>>

\* The head of the epoch loop when the limit is not reached:
\* change_sampling_idx(num_pixels), then the loop over the batches.
BeginEpoch ==
    /\ run_pc = "epoch"
    /\ epoch < run_conf.nepochs + EpochSlack
    /\ ~limit_reached(cur_iter, run_conf.max_niters)
    /\ sampling_idx' \in DrawnPixels
    /\ epochs_begun' = epochs_begun + 1
    /\ data_index' = 0
    /\ run_pc' = "batch"
    /\ UNCHANGED <<run_conf, epoch, cur_iter, run_log, model_training, is_training,
                   plot_local, plot_entry, plot_ret, render_testing, notRun>>

\* The head of the epoch loop when cur_iter > max_niters:
\* save_checkpoints(epoch), then plot_to_disk(), then exit(0).
ReachLimit ==
    /\ run_pc = "epoch"
    /\ epoch < run_conf.nepochs + EpochSlack
    /\ limit_reached(cur_iter, run_conf.max_niters)
    /\ sampling_idx' \in DrawnPixels
    /\ epochs_begun' = epochs_begun + 1
    /\ run_log' = Append(run_log, Checkpoint(epoch))
    /\ run_pc' = "plot"
    /\ plot_ret' = "exit"
    /\ UNCHANGED <<run_conf, epoch, cur_iter, data_index, model_training, is_training,
                   plot_local, plot_entry, render_testing, notRun>>

\* range(start_epoch, nepochs + 101) is exhausted: run returns.
EndLoop ==
    /\ run_pc = "epoch"
    /\ epoch >= run_conf.nepochs + EpochSlack
    /\ run_pc' = "returned"
    /\ UNCHANGED <<run_conf, epoch, cur_iter, data_index, epochs_begun, run_log,
                   model_training, is_training, sampling_idx, plot_local, plot_entry,
                   plot_ret, render_testing, notRun>>

\* The head of the batch loop: a checkpoint every ckpt_freq iterations, a plot
\* every plot_freq iterations but not at iteration 0.
BeginBatch ==
    /\ run_pc = "batch"
    /\ data_index < run_conf.n_batches
    /\ run_log' = IF cur_iter % run_conf.ckpt_freq = 0
                  THEN Append(run_log, Checkpoint(epoch)) ELSE run_log
    /\ IF cur_iter % run_conf.plot_freq = 0 /\ cur_iter > 0
       THEN run_pc' = "plot" /\ plot_ret' = "train"
       ELSE run_pc' = "train" /\ UNCHANGED plot_ret
    /\ UNCHANGED <<run_conf, epoch, cur_iter, data_index, epochs_begun, model_training,
                   is_training, sampling_idx, plot_local, plot_entry, render_testing,
                   notRun>>

\* The rest of the batch: the model renders through get_sg_render, the
\* optimizer steps, cur_iter += 1.
TrainBatch ==
    /\ run_pc = "train"
    /\ render_testing' = <<testing_of(is_training)>>
    /\ cur_iter' = cur_iter + 1
    /\ data_index' = data_index + 1
    /\ run_pc' = "batch"
    /\ UNCHANGED <<run_conf, epoch, epochs_begun, run_log, model_training, is_training,
                   sampling_idx, plot_local, plot_entry, plot_ret, notRun>>

\* The data loader is exhausted: the next epoch.
EndEpoch ==
    /\ run_pc = "batch"
    /\ data_index = run_conf.n_batches
    /\ epoch' = epoch + 1
    /\ run_pc' = "epoch"
    /\ UNCHANGED <<run_conf, cur_iter, data_index, epochs_begun, run_log, model_training,
                   is_training, sampling_idx, plot_local, plot_entry, plot_ret,
                   render_testing, notRun>>

\* plot_to_disk up to the rendering: model.eval(), is_training = False and,
\* if not plot_only, sampling_idx kept aside and change_sampling_idx(-1).
EnterPlot ==
    /\ run_pc = "plot"
    /\ model_training' = FALSE
    /\ is_training' = FALSE
    /\ plot_entry' = <<sampling_idx>>
    /\ IF run_conf.plot_only
       THEN UNCHANGED <<plot_local, sampling_idx>>
       ELSE plot_local' = <<sampling_idx>> /\ sampling_idx' = AllPixels
    /\ run_pc' = "plot_render"
    /\ UNCHANGED <<run_conf, epoch, cur_iter, data_index, epochs_begun, run_log, plot_ret,
                   render_testing, notRun>>

\* The model renders the split image through get_sg_render; the plot and the
\* environment map are written under cur_iter.
RenderPlot ==
    /\ run_pc = "plot_render"
    /\ render_testing' = <<testing_of(is_training)>>
    /\ run_log' = Append(run_log, Plot)
    /\ run_pc' = "plot_written"
    /\ UNCHANGED <<run_conf, epoch, cur_iter, data_index, epochs_begun, model_training,
                   is_training, sampling_idx, plot_local, plot_entry, plot_ret, notRun>>

\* The end of plot_to_disk: if not plot_only, model.train(), is_training =
\* True and sampling_idx put back; then the caller goes on: the training of
\* the batch, exit(0), or the return of run.
LeavePlot ==
    /\ run_pc = "plot_written"
    /\ IF run_conf.plot_only
       THEN UNCHANGED <<model_training, is_training, sampling_idx>>
       ELSE /\ model_training' = TRUE
            /\ is_training' = TRUE
            /\ sampling_idx' = sampling_idx_restored(plot_local[1], sampling_idx)
    /\ plot_local' = <<>>
    /\ run_pc' = IF plot_ret = "train" THEN "train"
                 ELSE IF plot_ret = "exit" THEN "exited" ELSE "returned"
    /\ plot_ret' = "none"
    /\ UNCHANGED <<run_conf, epoch, cur_iter, data_index, epochs_begun, run_log,
                   plot_entry, render_testing, notRun>>

NextRun ==
    \/ BeginRun
    \/ BeginEpoch
    \/ ReachLimit
    \/ EndLoop
    \/ BeginBatch
    \/ TrainBatch
    \/ EndEpoch
    \/ EnterPlot
    \/ RenderPlot
    \/ LeavePlot

StartRun == InitRun /\ IdleSG /\ IdleEnv /\ IdleVis /\ IdleRender /\ IdleAll

SpecRun == StartRun /\ [][NextRun]_vars

StartAll == InitAll /\ IdleSG /\ IdleEnv /\ IdleVis /\ IdleRender /\ IdleRun

SpecAll == StartAll /\ [][NextAll]_vars

StartRender == InitRender /\ IdleSG /\ IdleEnv /\ IdleVis /\ IdleAll /\ IdleRun

SpecRender == StartRender /\ [][NextRender]_vars

Start == InitVis /\ IdleSG /\ IdleEnv /\ IdleRender /\ IdleAll /\ IdleRun

Spec == Start /\ [][NextVis]_vars

StartSG == InitSG /\ IdleEnv /\ IdleVis /\ IdleRender /\ IdleAll /\ IdleRun

SpecSG == StartSG /\ [][NextSG]_vars

StartEnv == InitEnv /\ IdleSG /\ IdleVis /\ IdleRender /\ IdleAll /\ IdleRun

SpecEnv == StartEnv /\ [][NextEnv]_vars

(***************************************************************************)
(* The visibility samplers.                                                *)
(***************************************************************************)
\* The states in which the per-sample visibility has been scattered.
Scattered == vis_pc \in {"scattered", "aggregated", "trap", "ret"}

\* The states in which the aggregated visibility has been computed.
Aggregated == vis_pc \in {"aggregated", "trap", "ret"}

\* The loop over the chunks has ended.
LoopDone ==
    \/ Scattered
    \/ vis_pc = "query" /\ vis_chunk = split_count(Len(vis_mask), vis_args.batch_size)

\* The call returned the aggregated visibility.
ReturnedMean == vis_pc = "ret" /\ vis_ret.kind = "mean"

SoftmaxMode == ~vis_args.argmax_vis /\ ~vis_args.multi_view

ArgmaxMode == vis_args.argmax_vis \/ vis_args.multi_view

\* The pairs of the call's pair tensor.
AllPairs == { <<p, c>> : p \in 1..Len(vis_args.normals), c \in 1..n_cols_of(vis_args) }

\* dot(normal, direction) of a pair
PairDot(pair) == Dot(vis_args.normals[pair[1]], pair_dir(vis_args, vis_dirs, pair))

RECURSIVE Flatten(_)
Flatten(xss) == IF xss = <<>> THEN <<>> ELSE Head(xss) \o Flatten(Tail(xss))

\* C1: in softmax mode every aggregated visibility value that a sampler returns
\* (get_diffuse_visibility without bounding, get_specular_visibility) lies in
\* [0, 1], whatever the scores and the sampled directions.
C1_SoftmaxInUnitInterval ==
    (ReturnedMean /\ SoftmaxMode) =>
        \A g \in 1..Len(vis_ret.val) : \A p \in 1..Len(vis_ret.val[g]) :
            /\ ~IsNaN(vis_ret.val[g][p])
            /\ 0 <= vis_ret.val[g][p]
            /\ vis_ret.val[g][p] <= ONE

\* A softmax call has returned, a pair was queried, and a returned value lies
\* strictly between 0 and 1.
C1_Witness ==
    /\ ReturnedMean
    /\ SoftmaxMode
    /\ Len(vis_mask) > 0
    /\ \E g \in 1..Len(vis_ret.val) : \E p \in 1..Len(vis_ret.val[g]) :
           0 < vis_ret.val[g][p] /\ vis_ret.val[g][p] < ONE

RowSamples(g, p) ==
    IF vis_args.fn = "diffuse"
    THEN { vis_samp[p][(g - 1) * vis_args.nsamp + k] : k \in 1..vis_args.nsamp }
    ELSE { vis_samp[p][k] : k \in 1..vis_args.nsamp }

C3_NormalTest ==
    /\ \A i \in 1..Len(vis_calls) : \A j \in 1..Len(vis_calls[i]) :
           PairDot(vis_calls[i][j]) > TINY_NUMBER
    /\ Scattered =>
           \A pair \in AllPairs :
               PairDot(pair) <= TINY_NUMBER => vis_samp[pair[1]][pair[2]] = 0

\* A call is past the scatter; one pair has a cosine of exactly 0 and another a
\* negative one, neither was given to the predictor, and a pair that was given
\* to it has a visibility above 0.
C3_Witness ==
    /\ Scattered
    /\ \E pair \in AllPairs : PairDot(pair) = 0
    /\ \E pair \in AllPairs : PairDot(pair) < 0
    /\ \E i \in 1..Len(vis_calls) : \E j \in 1..Len(vis_calls[i]) :
           vis_samp[vis_calls[i][j][1]][vis_calls[i][j][2]] > 0

\* C4: every predictor call receives at most batch_size pairs; the calls made
\* so far are, in order, a prefix of the pairs that pass the normal test and
\* after the loop all of them, each once; each score is in its pair's slot;
\* and the aggregated visibility is the one of a single call with all pairs.
C4_Chunking ==
    /\ \A i \in 1..Len(vis_calls) : Len(vis_calls[i]) <= vis_args.batch_size
    /\ vis_pc # "call" =>
           /\ Len(Flatten(vis_calls)) <= Len(vis_mask)
           /\ Flatten(vis_calls) = SubSeq(vis_mask, 1, Len(Flatten(vis_calls)))
    /\ LoopDone =>
           /\ Flatten(vis_calls) = vis_mask
           /\ \A k \in 1..Len(vis_mask) :
                  vis_pred[k] = VisModel(vis_args.VisModel, vis_mask[k][1],
                                         pair_dir(vis_args, vis_dirs, vis_mask[k]))
    /\ Aggregated => vis_mean = visibility_of(vis_args, vis_rnd)

\* A call has returned after three predictor calls or more, the last one with
\* fewer pairs than batch_size, and with scores that are not all the same.
C4_Witness ==
    /\ vis_pc = "ret"
    /\ Len(vis_calls) >= 3
    /\ Len(vis_calls[Len(vis_calls)]) < vis_args.batch_size
    /\ Len(vis_calls[Len(vis_calls)]) > 0
    /\ \E j, k \in 1..Len(vis_pred) : vis_pred[j] # vis_pred[k]

\* C6 as stated, for the samplers: a call never returns when its aggregated
\* visibility contains a NaN.
C6_NoSilentNaN == vis_pc = "ret" => ~any_nan(vis_mean)

\* The pair tensor and the reduction of a specular call whose point q is
\* replaced by the surface point pt.
with_point(a, q, pt) ==
    [a EXCEPT !.normals[q] = pt.normal,
              !.viewdirs[q] = pt.viewdir,
              !.lgtSGLobes[q] = warp_brdf_lobe(pt.normal, pt.viewdir),
              !.lgtSGLambdas[q] = warp_brdf_lambda(pt.normal, pt.viewdir, pt.roughness)]

\* C7 as stated, for the specular sampler: with the draws held fixed, replacing
\* another point of the batch leaves the first point's visibility unchanged
\* (here: within 0.001, which no rounding accounts for).
C7_NoCrossPointCoupling ==
    (ReturnedMean /\ vis_args.fn = "specular") =>
        \A q \in 2..Len(vis_args.normals) : \A pt \in SurfacePoints :
            Abs(visibility_of(with_point(vis_args, q, pt), vis_rnd)[1][1]
                - vis_ret.val[1][1]) <= 1000

(***************************************************************************)
(* render_with_sg.                                                         *)
(***************************************************************************)
\* C5 as stated: for roughness > 0 and albedo in [0, 1], in every mode, the
\* returned diffuse radiance and the returned specular radiance are >= 0.
C5_NonNegative ==
    rw_pc = "ret" =>
        /\ rw_ret.sg_diffuse_rgb >= 0
        /\ rw_ret.sg_specular_rgb # <<>> => rw_ret.sg_specular_rgb[1] >= 0

(***************************************************************************)
(* SG algebra: lambda_trick and hemisphere_int.                            *)
(***************************************************************************)
\* lambda_trick has returned from a call with lambda1 = lambda2 > 0 and
\* lobe1 = lobe2, a unit vector.
C8_Case ==
    /\ sg_pc = "ret"
    /\ sg_args.fn = "lambda_trick"
    /\ sg_args.lambda1 = sg_args.lambda2
    /\ sg_args.lambda1 > 0
    /\ sg_args.lobe1 = sg_args.lobe2

\* C8 as stated: for lambda1 = lambda2 and lobe1 = lobe2, lambda_trick returns
\* exactly lambda3 = 2 lambda1 and mu3 = mu1 mu2.
C8_Exact ==
    C8_Case =>
        /\ sg_ret.lambda = 2 * sg_args.lambda1
        /\ sg_ret.mu = MulFix(sg_args.mu1, sg_args.mu2)

\* C8 as amended: for lambda1 = lambda2 and lobe1 = lobe2, lambda3 is 2 lambda1
\* from below with a relative error of at most 4e-6, and mu3 is mu1 mu2 from
\* below with a relative error of at most 4e-6 lambda1 (plus rounding):
\* norm_axis divides by norm + 1e-6, so the dot product of the two normalised
\* axes is below 1 and t is below 2.
C8_Near ==
    C8_Case =>
        LET mm == MulFix(sg_args.mu1, sg_args.mu2)
        IN  /\ sg_ret.lambda <= 2 * sg_args.lambda1
            /\ 2 * sg_args.lambda1 - sg_ret.lambda <= MulFix(4, sg_args.lambda1) + 1
            /\ sg_ret.mu <= mm
            /\ mm - sg_ret.mu <= MulFix(mm, MulFix(4, sg_args.lambda1) + 2) + 1

\* Such a call with sharpness 8 and the cosine lobe's amplitude has returned.
C8_Witness ==
    /\ C8_Case
    /\ sg_args.lambda1 = 8 * ONE
    /\ sg_args.mu1 = mu_cos
    /\ sg_ret.lambda > 0

\* The closed-form integral of exp(lambda (cos - 1)) over the whole sphere.
FullSphereSG(l) == MulFix(DivFix(6283185, l), SubFix(ONE, ExpFix(-2 * l)))

\* The closed-form integral of exp(lambda (cos - 1)) over the hemisphere
\* around the lobe axis.
UpperHemisphereSG(l) == MulFix(DivFix(6283185, l), SubFix(ONE, ExpFix(-l)))

\* hemisphere_int has returned from a call with cos_beta = 1.
C9_Case ==
    /\ sg_pc = "ret"
    /\ sg_args.fn = "hemisphere_int"
    /\ sg_args.cos_beta = ONE

\* C9 as stated: hemisphere_int(lambda, 1) equals the full-sphere integral
\* 2 pi / lambda (1 - exp(-2 lambda)), here to within 1e-4.
C9_FullSphere ==
    C9_Case => Abs(sg_ret.val - FullSphereSG(sg_args.lambda_val)) <= 100

\* C9 as amended: hemisphere_int(lambda, 1) equals the upper-hemisphere
\* integral 2 pi / lambda (1 - exp(-lambda)), the term A_u alone (s = 1), to
\* within 1e-5; it is below the full-sphere integral by A_b.
C9_UpperHemisphere ==
    C9_Case =>
        /\ Abs(sg_ret.val - UpperHemisphereSG(sg_args.lambda_val)) <= 10
        /\ sg_ret.val <= FullSphereSG(sg_args.lambda_val)

\* Such a call with lambda = 1 has returned a value well below the full-sphere
\* integral.
C9_Witness ==
    /\ C9_Case
    /\ sg_args.lambda_val = ONE
    /\ sg_ret.val < FullSphereSG(ONE) - ONE

(***************************************************************************)
(* The environment map round trip.                                         *)
(***************************************************************************)
\* render_envmap has looked up the direction of a grid cell of a full-sphere
\* map.
C10_Case ==
    /\ env_pc = "looked"
    /\ ~env_args.upper_hemi
    /\ env_query.cell # <<-1, -1>>

\* The pixel coordinates of the lookup are those of row i (of column j), to
\* within a thousandth of a pixel.
AddressesRow(i) == Abs(env_query.iy - i * ONE) <= 1000

AddressesCol(j) == Abs(env_query.ix - j * ONE) <= 1000

\* C10 as stated: for every cell (i, j) of the full-sphere map, the lookup
\* coordinates of that cell's direction address the same cell (i, j).
C10_SameCell ==
    C10_Case => AddressesRow(env_query.cell[1]) /\ AddressesCol(env_query.cell[2])

\* C10 as amended: the lookup addresses row i; it addresses column j unless
\* the cell lies on a pole row (i = 0 or H-1, where every column holds the
\* same direction) or on a seam column (j = 0 or W-1, which both hold the
\* azimuth +-pi and are addressed as column 0 or W-1); in every case the
\* looked-up radiance equals the cell's (render_envmap_sg at its direction)
\* to within 1e-4.
C10_RoundTrip ==
    C10_Case =>
        LET i == env_query.cell[1]
            j == env_query.cell[2]
            pole == i \in {0, env_args.H - 1}
            seam == j \in {0, env_args.W - 1}
        IN  /\ AddressesRow(i)
            /\ (~pole /\ ~seam) => AddressesCol(j)
            /\ (~pole /\ seam) => (AddressesCol(0) \/ AddressesCol(env_args.W - 1))
            /\ Abs(env_rgb - env_map[i][j]) <= 100

\* The lookup of an interior cell, off the poles and the seam, of a map lit
\* by two lobes.
C10_Witness ==
    /\ C10_Case
    /\ env_query.cell = <<1, 2>>
    /\ env_args.H = 3
    /\ env_args.W = 4
    /\ Len(env_args.lgtSGs) = 2
    /\ env_rgb > 0

(***************************************************************************)
(* The upper-hemisphere environment map.                                   *)
(***************************************************************************)
\* No row of an upper-hemisphere grid holds a direction below the horizon.
C11_GridAboveHorizon ==
    (env_pc \in {"map", "looked"} /\ env_args.upper_hemi) =>
        \A i \in 0..(env_args.H - 1), j \in 0..(env_args.W - 1) :
            envmap_viewdir(env_args.H, env_args.W, TRUE, i, j)[3] >= 0

\* C11 as stated: no row of a map built with upper_hemi=True samples the lower
\* hemisphere, and looking a direction with negative z up in that map with
\* render_envmap returns 0.
C11_LowerHemisphereZero ==
    /\ C11_GridAboveHorizon
    /\ (env_pc = "looked" /\ env_args.upper_hemi /\ env_query.viewdir[3] < 0) =>
           env_rgb = 0

(***************************************************************************)
(* render_with_sg: divisions, the ordering of the lobes, the outputs.      *)
(***************************************************************************)
\* render_with_sg has evaluated its diffuse term.
DiffuseShaded == rw_pc = "diffuse"

\* diffuse_rgb after the clamp of the sum and before the precomputed integral
\* is looked at.
ClampedDiffuse == DiffuseTable[diffuse_key(rw_args, rw_light_vis)]

\* C12 as stated, for render_with_sg: for light sharpness >= 0 no denominator
\* is zero and no division produces NaN: when the diffuse term has been
\* evaluated, the divisor lambda2 of lambda_trick's ratio (the light's
\* sharpness) is nonzero for every lobe, and the clamped sum is not NaN.
C12_DivisionsGuarded ==
    DiffuseShaded =>
        /\ \A l \in 1..Len(rw_args.lgtSGs) : lgtSGLambda(rw_args.lgtSGs[l]) # 0
        /\ ~IsNaN(ClampedDiffuse)

\* render_with_sg has evaluated its specular term.
SpecularShaded == rw_pc = "specular"

\* The warped BRDF SG of the call, and the product of light lobe l with it
\* that specular_rgb_fn hands on to the cosine lobe.
WarpOfCall ==
    warp_brdf(rw_args.normal, rw_args.viewdirs, rw_args.roughness,
              rw_args.specular_reflectance, rw_args.metallic, rw_args.diffuse_albedo)

SpecularProduct(l) ==
    lambda_trick(lgtSGLobe(rw_args.lgtSGs[l]), lgtSGLambda(rw_args.lgtSGs[l]),
                 MulFix(origin_lgtSGMu(rw_args.lgtSGs[l]), rw_brdf_vis[1]),
                 WarpOfCall.lobe, WarpOfCall.lambda, WarpOfCall.mu)

\* C13 as stated: lambda1 <= lambda2 at every call of lambda_trick that
\* render_with_sg has made: the light lobe times the warped BRDF lobe, the
\* cosine lobe times the light lobe (diffuse term), and the cosine lobe times
\* the specular product.
C13_SharperLobeSecond ==
    SpecularShaded =>
        \A l \in 1..Len(rw_args.lgtSGs) :
            /\ lgtSGLambda(rw_args.lgtSGs[l]) <= WarpOfCall.lambda
            /\ lambda_cos <= lgtSGLambda(rw_args.lgtSGs[l])
            /\ lambda_cos <= SpecularProduct(l).lambda

\* render_with_sg has returned its dictionary.
Returned == rw_pc = "ret"

\* The weight of the supervision term by mode.
SuperviseWeight(prefit) ==
    IF prefit = "warmup" THEN 100000 ELSE IF prefit = "project" THEN 200000 ELSE ONE

\* C14: the returned supervise is the divergence of |sampled visibility -
\* diffuse_vis| weighted by 0.1 for prefit "warmup", 0.2 for "project" and 1.0
\* for every other prefit; it is 0 when no diffuse_vis is given or comp_vis is
\* false.
C14_SuperviseByMode ==
    Returned =>
        IF rw_args.comp_vis /\ rw_args.diffuse_vis # <<>>
        THEN /\ rw_ret.supervise.scale = SuperviseWeight(rw_args.prefit)
             /\ rw_ret.supervise.abs_diff =
                   [ l \in 1..Len(rw_args.lgtSGs) |->
                       Abs(rw_light_vis_gt[l] - rw_args.diffuse_vis[1][l]) ]
        ELSE rw_ret.supervise = NoSupervise

\* A call in the "project" phase has returned a supervision term of weight 0.2
\* over a sampled visibility that differs from the caller's.
C14_Witness ==
    /\ Returned
    /\ rw_args.comp_vis
    /\ rw_args.prefit = "project"
    /\ rw_ret.supervise.scale = 200000
    /\ \E l \in 1..Len(rw_args.lgtSGs) : rw_ret.supervise.abs_diff[l] > 0

\* The caller has called the evaluator that a deferred call returned.
DeferredEvaluated == rw_pc = "deferred"

\* The five outputs; in deferred mode the evaluator stands in the place of the
\* specular radiance, and nothing of the specular term has run when the call
\* returns: no sampler call for it, no specular radiance.
C15_FiveOutputs ==
    Returned =>
        /\ DOMAIN rw_ret = {"sg_rgb", "sg_specular_rgb", "sg_diffuse_rgb", "vis_shadow",
                            "supervise"}
        /\ rw_ret.sg_diffuse_rgb = rw_diffuse
        /\ rw_args.fun_spec =>
              /\ rw_ret.sg_specular_rgb = <<>>
              /\ rw_specular = <<>>
              /\ \A k \in 1..Len(rw_calls) : rw_calls[k].fn # "get_specular_visibility"
        /\ ~rw_args.fun_spec =>
              /\ rw_ret.sg_specular_rgb = rw_specular
              /\ rw_ret.sg_rgb = AddFix(rw_ret.sg_diffuse_rgb, rw_specular[1])

\* C15 as stated: the five outputs are returned, and in every mode 'sg_rgb' is
\* 'sg_diffuse_rgb' plus the specular radiance, which in deferred mode is what
\* the returned evaluator yields.
C15_SumOfTerms ==
    /\ C15_FiveOutputs
    /\ DeferredEvaluated =>
          rw_ret.sg_rgb = AddFix(rw_ret.sg_diffuse_rgb, rw_specular[1])

\* C15 as amended: the five outputs are returned; without fun_spec 'sg_rgb' is
\* 'sg_diffuse_rgb' plus the specular radiance; in deferred mode 'sg_rgb' is
\* 'sg_diffuse_rgb' alone, whatever the evaluator yields when it is called.
C15_Outputs ==
    /\ C15_FiveOutputs
    /\ (Returned \/ DeferredEvaluated) /\ rw_args.fun_spec =>
          rw_ret.sg_rgb = rw_ret.sg_diffuse_rgb

\* A deferred call has returned and its evaluator, called afterwards, has
\* yielded a positive specular radiance that 'sg_rgb' does not contain.
C15_Witness ==
    /\ DeferredEvaluated
    /\ rw_specular[1] > 0
    /\ rw_ret.sg_rgb = rw_ret.sg_diffuse_rgb
    /\ rw_ret.sg_specular_rgb = <<>>

(***************************************************************************)
(* render_with_all_sg: the direct and the indirect pass.                   *)
(***************************************************************************)
\* render_with_all_sg has returned.
AllReturned == all_pc = "ret"

\* The indirect diffuse term that a precomputed integral stands for.
IntegralDiffuse ==
    IF all_args.lin_diff THEN all_args.indir_integral[1]
    ELSE MulFix(all_args.indir_integral[1], DivFix(all_args.diffuse_albedo, PI))

\* C16: when render_with_all_sg returns, the first pass ran on lgtSGs with
\* comp_vis=True and no precomputed integral, and it is the only pass with
\* comp_vis=True; a second pass ran if and only if indir_lgtSGs is given, on
\* indir_lgtSGs with comp_vis=False; its diffuse term is indir_integral *
\* albedo / pi (indir_integral itself in linear-diffuse mode) whenever
\* indir_integral is given; without indir_lgtSGs the three indirect outputs
\* are zero.
C16_DirectThenIndirect ==
    AllReturned =>
        /\ Len(all_passes) = IF all_args.indir_lgtSGs = <<>> THEN 1 ELSE 2
        /\ all_passes[1].args.comp_vis
        /\ all_passes[1].args.lgtSGs = all_args.lgtSGs
        /\ all_passes[1].args.indir_integral = <<>>
        /\ all_args.indir_lgtSGs # <<>> =>
              /\ ~all_passes[2].args.comp_vis
              /\ all_passes[2].args.lgtSGs = all_args.indir_lgtSGs[1]
              /\ all_ret.indir_diffuse_rgb = all_passes[2].ret.sg_diffuse_rgb
              /\ all_ret.indir_rgb = all_passes[2].ret.sg_rgb
              /\ all_ret.indir_specular_rgb = all_passes[2].ret.sg_specular_rgb
              /\ all_args.indir_integral # <<>> =>
                    all_ret.indir_diffuse_rgb = IntegralDiffuse
        /\ all_args.indir_lgtSGs = <<>> =>
              /\ all_ret.indir_rgb = 0
              /\ all_ret.indir_diffuse_rgb = 0
              /\ all_ret.indir_specular_rgb = <<0>>

\* A call with indirect lights and a precomputed integral has returned, the
\* integral's term in the place of a different hemisphere integral.
C16_Witness ==
    /\ AllReturned
    /\ Len(all_passes) = 2
    /\ all_args.indir_integral = <<500000>>
    /\ ~all_args.lin_diff
    /\ all_ret.indir_diffuse_rgb = IntegralDiffuse
    /\ all_ret.indir_diffuse_rgb #
          DiffuseTable[diffuse_key(all_passes[2].args, <<>>)]

(***************************************************************************)
(* Back-facing and grazing points.                                         *)
(***************************************************************************)
\* The point of the call is seen from behind or at grazing incidence.
BackFacing == Dot(rw_args.normal, rw_args.viewdirs) <= 0

\* dot1, dot2 and G of the call.
GeometryOfCall ==
    brdf_geometry(rw_args.normal, rw_args.viewdirs, WarpOfCall.lobe, rw_args.roughness)

HemisphereReturned == sg_pc = "ret" /\ sg_args.fn = "hemisphere_int"

LambdaTrickReturned == sg_pc = "ret" /\ sg_args.fn = "lambda_trick"

\* ratio, tmp after the clamp, and diff of the call.
RatioOfCall == DivFix(sg_args.lambda1, sg_args.lambda2)

TmpOfCall ==
    MinFix(lambda_trick_sqrt(RatioOfCall,
                             Dot(norm_axis(sg_args.lobe1), norm_axis(sg_args.lobe2))),
           AddFix(RatioOfCall, ONE))

DiffOfCall == MulFix(sg_args.lambda2, SubFix(SubFix(TmpOfCall, RatioOfCall), ONE))

\* a <= b as a float comparison: false when either is NaN
LeFix(a, b) == ~IsNaN(a) /\ ~IsNaN(b) /\ a <= b

\* t <= r + 1, lambda3 = lambda2 t <= lambda1 + lambda2 (to within the
\* rounding of r, a millionth of lambda2), the exponent lambda2 (t - r - 1) is
\* <= 0, and mu3 <= mu1 mu2.
ClampBoundsOfCall ==
    /\ LeFix(TmpOfCall, AddFix(RatioOfCall, ONE))
    /\ sg_ret.lambda = MulFix(sg_args.lambda2, TmpOfCall)
    /\ LeFix(sg_ret.lambda,
             sg_args.lambda1 + sg_args.lambda2 + MulFix(sg_args.lambda2, 1) + 1)
    /\ LeFix(DiffOfCall, 0)
    /\ LeFix(sg_ret.mu, MulFix(sg_args.mu1, sg_args.mu2))

\* C19 as stated: for all non-negative inputs of lambda_trick, t is at most
\* r + 1, lambda3 = lambda2 t is at most lambda1 + lambda2, the exponent
\* lambda2 (t - r - 1) is at most 0, and mu3 is at most mu1 mu2.
C19_ClampBounds == LambdaTrickReturned => ClampBoundsOfCall

\* The bounds hold in every call with lambda2 > 0.
C19_PositiveSharpness ==
    (LambdaTrickReturned /\ sg_args.lambda2 > 0) => ClampBoundsOfCall

(***************************************************************************)
(* The sampler calls of render_with_sg, by mode.                           *)
(***************************************************************************)
\* The calls made so far to the sampler fn, in order.
CallsTo(fn) == SelectSeq(rw_calls, LAMBDA c : c.fn = fn)

\* The light-visibility branch is behind: the call has sampled the lights or
\* skipped the sampling.
PastLightBranch == rw_pc \in {"lit", "diffuse", "spec_vis", "specular", "ret", "deferred"}

\* specular_rgb_fn has run as far as the return of its sampler.
SpecularEvaluated == rw_brdf_vis # <<>>

C20_BothSamplers ==
    /\ rw_pc = "ret"
    /\ rw_args.comp_vis
    /\ rw_args.diffuse_vis # <<>>
    /\ Len(rw_calls) = 2
    /\ rw_calls[1].nsamp = 8
    /\ rw_calls[2].fn = "get_specular_visibility"
    /\ ~rw_calls[2].inv

\* The light sampler ran with 32 samples: no diffuse_vis was supplied.
C20_ThirtyTwoSamples ==
    /\ PastLightBranch
    /\ rw_args.comp_vis
    /\ rw_args.diffuse_vis = <<>>
    /\ rw_calls[1].nsamp = 32

(***************************************************************************)
(* The visibility that shades the diffuse term of render_with_sg.          *)
(***************************************************************************)
\* The diffuse term has been evaluated, the NaN test not yet passed.
DiffuseDone == rw_pc \in {"diffuse", "spec_vis", "specular", "ret", "deferred"}

\* The diffuse term is the one whose light amplitudes are multiplied by vis,
\* lobe by lobe: it and vis_shadow are what this visibility gives.
ShadedWith(vis) ==
    /\ rw_diffuse = diffuse_override(
                        DiffuseTable[diffuse_key([rw_args EXCEPT !.comp_vis = TRUE], vis)],
                        rw_args.indir_integral, rw_args.diffuse_albedo, rw_args.lin_diff)
    /\ rw_vis_shadow = vis_shadow_of(rw_args.lgtSGs, vis)

\* The diffuse term is the one of the light amplitudes as they are.
Unshaded ==
    /\ rw_diffuse = diffuse_override(
                        DiffuseTable[diffuse_key([rw_args EXCEPT !.comp_vis = FALSE], <<>>)],
                        rw_args.indir_integral, rw_args.diffuse_albedo, rw_args.lin_diff)
    /\ rw_vis_shadow = 0

\* diffuse_vis enters the supervision scalar, or there is no supervision.
SupervisedByGiven ==
    /\ rw_supervise # NoSupervise
    /\ rw_supervise.abs_diff = [ l \in 1..Len(rw_args.lgtSGs) |->
                                   Abs(rw_light_vis_gt[l] - rw_args.diffuse_vis[1][l]) ]

\* The light sampler has run: there is a sampled visibility.
Sampled == rw_light_vis_gt # <<>>

\* C21 as stated, for every call: with a diffuse_vis and prefit "warmup" the
\* light amplitude is multiplied by the sampled visibility and diffuse_vis
\* enters the supervision scalar; with a diffuse_vis and any other prefit the
\* light amplitude is multiplied by diffuse_vis; without a diffuse_vis it is
\* multiplied by the sampled visibility.  The two cases that name the sampled
\* visibility are read of the calls that have one.
C21_ShadingVisibility ==
    DiffuseDone =>
        /\ (rw_args.diffuse_vis # <<>> /\ rw_args.prefit = "warmup" /\ Sampled) =>
              ShadedWith(rw_light_vis_gt) /\ SupervisedByGiven
        /\ (rw_args.diffuse_vis # <<>> /\ rw_args.prefit # "warmup") =>
              ShadedWith(rw_args.diffuse_vis[1])
        /\ (rw_args.diffuse_vis = <<>> /\ Sampled) => ShadedWith(rw_light_vis_gt)

\* C21 for the calls it is true of: with comp_vis the light amplitude is
\* multiplied by the sampled visibility when prefit is "warmup" (diffuse_vis
\* then enters the supervision scalar only) or no diffuse_vis is given, and by
\* diffuse_vis for every other prefit; without comp_vis nothing is sampled,
\* the light amplitude is left as it is and diffuse_vis and prefit are not
\* read: no supervision, vis_shadow zero.
C21_ShadingWithCompVis ==
    DiffuseDone =>
        IF rw_args.comp_vis
        THEN /\ (rw_args.diffuse_vis # <<>> /\ rw_args.prefit = "warmup") =>
                   ShadedWith(rw_light_vis_gt) /\ SupervisedByGiven
             /\ (rw_args.diffuse_vis # <<>> /\ rw_args.prefit # "warmup") =>
                   ShadedWith(rw_args.diffuse_vis[1])
             /\ rw_args.diffuse_vis = <<>> => ShadedWith(rw_light_vis_gt)
        ELSE /\ Unshaded
             /\ rw_light_vis_gt = <<>>
             /\ rw_supervise = NoSupervise

\* A call with comp_vis, a diffuse_vis and prefit "project" has shaded its
\* lights with diffuse_vis, and the sampled visibility would have given
\* another diffuse term.
C21_Witness ==
    /\ DiffuseDone
    /\ rw_args.comp_vis
    /\ rw_args.diffuse_vis # <<>>
    /\ rw_args.prefit = "project"
    /\ rw_args.indir_integral = <<>>
    /\ ShadedWith(rw_args.diffuse_vis[1])
    /\ ~ShadedWith(rw_light_vis_gt)
    /\ rw_diffuse # DiffuseTable[diffuse_key(rw_args, rw_light_vis_gt)]

\* A "warmup" call with comp_vis has shaded its lights with the sampled
\* visibility, and diffuse_vis would have given another diffuse term.
C21_Warmup ==
    /\ DiffuseDone
    /\ rw_args.comp_vis
    /\ rw_args.prefit = "warmup"
    /\ rw_args.indir_integral = <<>>
    /\ ShadedWith(rw_light_vis_gt)
    /\ rw_diffuse # DiffuseTable[diffuse_key(rw_args, rw_args.diffuse_vis[1])]

\* A call without comp_vis and with a diffuse_vis has left its lights as they
\* are, and diffuse_vis would have given another diffuse term.
C21_GivenButUnused ==
    /\ DiffuseDone
    /\ ~rw_args.comp_vis
    /\ rw_args.diffuse_vis # <<>>
    /\ rw_args.indir_integral = <<>>
    /\ Unshaded
    /\ ~ShadedWith(rw_args.diffuse_vis[1])

(***************************************************************************)
(* The iteration limit of the training loop.                               *)
(***************************************************************************)
\* run trains: the loop over the batches of an epoch is under way.
InEpoch == run_pc \in {"batch", "train"} \/ (run_pc \in {"plot", "plot_render", "plot_written"} /\ plot_ret = "train")

\* cur_iter as it was when the epoch under way began.
IterAtEpochStart == cur_iter - data_index

\* The process has left through exit(0).
Exited == run_pc = "exited"

\* The last things run did before exit(0): save_checkpoints(epoch), then the
\* plot under cur_iter.
SavedAndPlotted ==
    /\ Len(run_log) >= 2
    /\ run_log[Len(run_log) - 1] = Checkpoint(epoch)
    /\ run_log[Len(run_log)] = Plot

MaxOf(a, b) == IF a >= b THEN a ELSE b

\* The limit is tested at the start of an epoch only: an epoch trains only
\* if cur_iter <= max_niters held at its start, it then trains all its
\* batches, and the process exits on cur_iter > max_niters after a checkpoint
\* and a plot.
TestedAtEpochStart ==
    /\ InEpoch => IterAtEpochStart <= run_conf.max_niters
    /\ (InEpoch /\ data_index > 0) => cur_iter <= run_conf.max_niters + data_index
    /\ Exited => /\ cur_iter > run_conf.max_niters
                 /\ SavedAndPlotted

\* C22 as stated, for a run that trains (plot_only false): the limit is
\* tested at the start of an epoch only, a checkpoint and a plot precede the
\* exit, cur_iter never exceeds max_niters + n_batches, and the loop body is
\* entered at most nepochs + 101 - start_epoch times.
C22_IterationLimit ==
    (run_pc \notin {"off", "call"} /\ ~run_conf.plot_only) =>
        /\ TestedAtEpochStart
        /\ cur_iter <= run_conf.max_niters + run_conf.n_batches
        /\ epochs_begun <= run_conf.nepochs + EpochSlack - run_conf.start_epoch

\* C22 with the bounds the loop has: the limit is tested at the start of an
\* epoch only and a checkpoint and a plot precede the exit; cur_iter never
\* exceeds the larger of max_niters + n_batches and its initial value
\* start_epoch * n_batches, from which a resumed run starts; and the loop
\* body is entered at most nepochs + 101 - start_epoch times, or never when
\* start_epoch is beyond nepochs + 101.
C22_LimitFromStart ==
    (run_pc \notin {"off", "call"} /\ ~run_conf.plot_only) =>
        /\ TestedAtEpochStart
        /\ cur_iter <= MaxOf(run_conf.max_niters + run_conf.n_batches,
                             run_conf.start_epoch * run_conf.n_batches)
        /\ cur_iter >= run_conf.start_epoch * run_conf.n_batches
        /\ epochs_begun <= MaxOf(0, run_conf.nepochs + EpochSlack - run_conf.start_epoch)
        /\ run_pc = "returned" => epoch >= run_conf.nepochs + EpochSlack

\* A run from epoch 0 has exited after a checkpoint and a plot, having
\* trained past the limit inside its last epoch.
C22_Witness ==
    /\ Exited
    /\ run_conf.start_epoch = 0
    /\ cur_iter > run_conf.max_niters + 1
    /\ cur_iter <= run_conf.max_niters + run_conf.n_batches
    /\ SavedAndPlotted

\* A resumed run whose first cur_iter is already beyond max_niters +
\* n_batches has exited at its first epoch.
C22_ResumedBeyond ==
    /\ Exited
    /\ epochs_begun = 1
    /\ cur_iter > run_conf.max_niters + run_conf.n_batches

\* A run has returned with the range of epochs exhausted and the limit never
\* reached.
C22_Exhausted ==
    /\ run_pc = "returned"
    /\ ~run_conf.plot_only
    /\ epochs_begun = run_conf.nepochs + EpochSlack - run_conf.start_epoch
    /\ epochs_begun > 0
    /\ cur_iter <= run_conf.max_niters

(***************************************************************************)
(* plot_to_disk and the training state.                                    *)
(***************************************************************************)
\* plot_to_disk is under way, past its entry.
InPlot == run_pc \in {"plot_render", "plot_written"}

\* The step with which plot_to_disk returns.
PlotReturns == run_pc = "plot_written" /\ run_pc' # "plot_written"

\* C23: while plot_to_disk runs the model is in eval mode and is_training is
\* false, and the renderer it calls gets testing = True; a training batch
\* renders with testing = False; and when plot_only is false the step that
\* returns from plot_to_disk leaves the model in train mode, is_training true
\* and sampling_idx as it was when plot_to_disk was entered.
C23_PlotIsTransparent ==
    /\ [](InPlot => ~model_training /\ ~is_training)
    /\ []((run_pc = "plot_written") => render_testing = <<TRUE>>)
    /\ []((run_pc = "batch" /\ data_index > 0) => render_testing = <<FALSE>>)
    /\ [][(PlotReturns /\ ~run_conf.plot_only) =>
            /\ model_training'
            /\ is_training'
            /\ sampling_idx' = plot_entry[1]]_vars

\* plot_to_disk has just returned into the batch loop: its rendering is the
\* last one, in testing mode, and the drawn pixels of the epoch are back in
\* sampling_idx, which held all pixels during the call.
C23_Witness ==
    /\ run_pc = "train"
    /\ ~run_conf.plot_only
    /\ render_testing = <<TRUE>>
    /\ plot_entry # <<>>
    /\ sampling_idx = plot_entry[1]
    /\ sampling_idx \in DrawnPixels
    /\ model_training
    /\ is_training

\* With plot_only the model stays in eval mode after plot_to_disk.
C23_PlotOnlyStaysEval ==
    /\ run_pc = "returned"
    /\ run_conf.plot_only
    /\ ~model_training
    /\ ~is_training

(***************************************************************************)
(* The sampling cone of the visibility samplers.                           *)
(***************************************************************************)
\* The cone of a sampler call has been computed.
ConeReturned == sg_pc = "ret" /\ sg_args.fn = "r_phi_range"

\* C24: in both samplers, for every lobe and every threshold > 0, the range
\* is positive and at most the lobe's clamped sharpness, the argument of the
\* arccos lies in [0.05, 1], and the half-angle is not NaN and lies in
\* [0, pi/2).
C24_ConeWellDefined ==
    ConeReturned =>
        /\ sg_ret.sg_range > 0
        /\ \A l \in 1..Len(sg_args.lgtSGLambdas) :
             /\ sg_ret.sharpness[l] >= (IF sg_args.sampler = "diffuse" THEN 100 ELSE 100000)
             /\ sg_args.sampler = "specular" => sg_ret.sharpness[l] <= 50 * ONE
             /\ sg_ret.sg_range <= sg_ret.sharpness[l]
             /\ ~IsNaN(sg_ret.cosine[l])
             /\ sg_ret.cosine[l] >= 50000
             /\ sg_ret.cosine[l] <= ONE
             /\ ~IsNaN(sg_ret.r_phi_range[l])
             /\ sg_ret.r_phi_range[l] >= 0
             /\ 2 * sg_ret.r_phi_range[l] < PI

\* A diffuse call of two lobes, one below the clamp and one far above it: the
\* sharp lobe's cone is narrower than the flat lobe's, whose argument is the
\* least one, 0.05.
C24_Witness ==
    /\ ConeReturned
    /\ sg_args.sampler = "diffuse"
    /\ Len(sg_args.lgtSGLambdas) = 2
    /\ sg_args.lgtSGLambdas[1] < 100
    /\ sg_args.lgtSGLambdas[2] > ONE
    /\ sg_ret.cosine[1] = 50000
    /\ sg_ret.cosine[2] > sg_ret.cosine[1]
    /\ sg_ret.r_phi_range[2] < sg_ret.r_phi_range[1]

\* A specular call with a sharpness above the clamp at 50 and one below the
\* clamp at 0.1.
C24_SpecularClamped ==
    /\ ConeReturned
    /\ sg_args.sampler = "specular"
    /\ Len(sg_args.lgtSGLambdas) = 2
    /\ sg_args.lgtSGLambdas[1] > 50 * ONE
    /\ sg_args.lgtSGLambdas[2] < 100000
    /\ sg_ret.sharpness = <<50 * ONE, 100000>>
    /\ sg_ret.r_phi_range[1] > 0

====
